---- MODULE Spec2Model ----
(***************************************************************************)
(* A model of dream-tutor: the codec and the two stream-cipher contexts    *)
(* (src/src/crypto.rs), the bundle assembler (src/src/bundle.rs and the    *)
(* inline module of src/src/lib.rs), the Lua compiler adapter              *)
(* (src/src/lua.rs), the resource builder (src/src/lib.rs) and the option  *)
(* check in front of it (src/src/main.rs).                                 *)
(*                                                                         *)
(* Bytes are integers 0..255, byte strings and texts are sequences of      *)
(* them (a text holds character codes).  Three specifications share the    *)
(* variables: SpecCrypto drives the codec and cipher functions, SpecBundle *)
(* drives a Bundles value, Spec drives one compile request through         *)
(* main.rs compile and GameRes::build.                                     *)
(***************************************************************************)
EXTENDS Integers, Sequences, FiniteSets, TLC

VARIABLES
    c_data,     \* SpecCrypto: the byte string the next call is applied to
    c_orig,     \* SpecCrypto: the byte string the run started from
    c_ops,      \* SpecCrypto: the calls made so far, in order
    c_hist,     \* SpecCrypto: the bytes each of those calls produced
    c_status,   \* SpecCrypto: how the last call ended: "ok", "err", "panic"
    c_err,      \* SpecCrypto: the io::Error of the last call (kind and message)
    b_pc,       \* SpecBundle: "new", "open", "packed", "extracted", "panic"
    entries,    \* SpecBundle: Bundles.entries, an IndexMap in slot order
    b_hist,     \* SpecBundle: every insert made, in order (name, payload)
    b_script,   \* SpecBundle: the loader script pack rendered
    b_artifact, \* SpecBundle: what pack returned
    b_file,     \* SpecBundle: the artifact as the verification tool reads it
    b_out,      \* SpecBundle: the IndexMap extract_bundle filled
    pc,         \* Spec: the stage the request is at
    option,     \* Spec: the CompileOption of the request
    file,       \* Spec: the database bytes handed to compile
    res,        \* Spec: the GameRes under construction
    now,        \* Spec: the wall clock read by create_adaptor
    bytecode,   \* Spec: the compiled database
    adaptor,    \* Spec: the compiled adaptor
    bundles,    \* Spec: the entries of the Bundles of this build
    outcome,    \* Spec: how the call ended: kind "none", "ok", "err", "panic"
    trace,      \* Spec: the stages entered so far, in order
    n_pc,       \* SpecName: "name", "packed", "decoded", "error"
    n_name,     \* SpecName: a resource name, as its code points
    n_id,       \* SpecName: the identifier pack writes for the name
    n_back,     \* SpecName: the name extract_bundle reads from the identifier
    s_sessions, \* SpecServer: the ids of the sessions in SharedState.store
    s_tasks,    \* SpecServer: the "tasks" value of each session's data
    s_files,    \* SpecServer: SharedState.files, a map from filename to bytes
    s_results,  \* SpecServer: SharedState.results
    s_flock,    \* SpecServer: the holders of the RwLock of files
    s_rlock,    \* SpecServer: the holders of the RwLock of results
    s_proc,     \* SpecServer: the request each connection task is handling
    s_started,  \* SpecServer: requests of each kind started so far
    s_owner,    \* SpecServer: for each result, the session that submitted it
    s_acked,    \* SpecServer: the (session, id) of submissions answered "ok"
    s_reply     \* SpecServer: the latest request answered, with its response

cvars == <<c_data, c_orig, c_ops, c_hist, c_status, c_err>>
bvars == <<b_pc, entries, b_hist, b_script, b_artifact, b_file, b_out>>
gvars == <<pc, option, file, res, now, bytecode, adaptor, bundles, outcome, trace>>
nvars == <<n_pc, n_name, n_id, n_back>>
svars == <<s_sessions, s_tasks, s_files, s_results, s_flock, s_rlock, s_proc,
           s_started, s_owner, s_acked, s_reply>>
ovars == <<nvars, svars>>
vars == <<cvars, bvars, gvars, ovars>>

NIdle ==
    /\ n_pc = "idle"
    /\ n_name = <<>>
    /\ n_id = <<>>
    /\ n_back = <<>>

\* the connection tasks that run handlers side by side
Procs == {"p1", "p2"}

\* the ids Session::new can draw
SessionIds == {"s1", "s2"}

NoLock == [readers |-> {}, writer |-> {}]

NoResult == [ok |-> FALSE, data |-> <<>>, err |-> ""]

NoResponse == [status |-> "", text |-> "", data |-> <<>>, tasks |-> {}]

IdleProc ==
    [kind |-> "idle", pc |-> "idle", cookie |-> "none", sess |-> "none", fname |-> "",
     flags |-> "", id |-> 0, tasks |-> {}, result |-> NoResult, resp |-> NoResponse]

\* SharedState::default
SNew ==
    /\ s_sessions = {}
    /\ s_tasks = [x \in SessionIds |-> {}]
    /\ s_files = {}
    /\ s_results = <<>>
    /\ s_flock = NoLock
    /\ s_rlock = NoLock
    /\ s_proc = [p \in Procs |-> IdleProc]
    /\ s_started = 0
    /\ s_owner = <<>>
    /\ s_acked = {}
    /\ s_reply = IdleProc

OIdle == NIdle /\ SNew

(***************************************************************************)
(* Bounds of the model.                                                    *)
(***************************************************************************)
MaxLen == 2          \* longest input byte string of SpecCrypto
MaxOps == 2          \* calls made in one SpecCrypto run
MaxPayload == 1      \* longest payload inserted in SpecBundle
MaxSets == 2         \* set_database calls in one SpecBundle run
MaxName == 3         \* longest resource name of SpecName
MaxSubmits == 2      \* submit_compile requests in one SpecServer run
MaxLiveSessions == 1 \* sessions logged in in one SpecServerLive run
KsLen == 2048        \* keystream bytes kept per cipher context

ByteSample == {0, 13, 255}
PayloadSample == {0, 255}

\* all sequences over S of length at most n
SeqsUpTo(S, n) == UNION {[1..k -> S] : k \in 0..n}

(***************************************************************************)
(* Integer and byte helpers.                                               *)
(***************************************************************************)
RECURSIVE BitXor(_, _)
BitXor(a, b) ==
    IF a = 0 THEN b
    ELSE IF b = 0 THEN a
    ELSE (((a % 2) + (b % 2)) % 2) + 2 * BitXor(a \div 2, b \div 2)

\* u32::to_le_bytes
U32ToLe(n) == <<n % 256, (n \div 256) % 256, (n \div 65536) % 256, (n \div 16777216) % 256>>

\* the order of the bytes turned round
Reverse(s) == [i \in 1..Len(s) |-> s[Len(s) + 1 - i]]

\* u32::from_le_bytes, for the values the model can hold: TLC's integers are
\* 32-bit signed, so a field of 65536 or more is kept as 65536, which is
\* already more than any stream of the model yields
U32FromLe(b) == IF b[3] = 0 /\ b[4] = 0 THEN b[1] + 256 * b[2] ELSE 65536

Min(a, b) == IF a < b THEN a ELSE b

\* the sum of s[lo..hi], halving the range so that the evaluation stays shallow
RECURSIVE SumRange(_, _, _)
SumRange(s, lo, hi) ==
    IF lo > hi THEN 0
    ELSE IF lo = hi THEN s[lo]
    ELSE LET mid == (lo + hi) \div 2
         IN  SumRange(s, lo, mid) + SumRange(s, mid + 1, hi)

\* the concatenation of the sequences parts[lo..hi]
RECURSIVE ConcatRange(_, _, _)
ConcatRange(parts, lo, hi) ==
    IF lo > hi THEN <<>>
    ELSE IF lo = hi THEN parts[lo]
    ELSE LET mid == (lo + hi) \div 2
         IN  ConcatRange(parts, lo, mid) \o ConcatRange(parts, mid + 1, hi)

Concat(parts) == ConcatRange(parts, 1, Len(parts))

\* Vec::resize(n, 0): truncated, or extended with zero bytes
Resize(v, n) == [i \in 1..n |-> IF i <= Len(v) THEN v[i] ELSE 0]

(***************************************************************************)
(* crypto.rs: the RC4 keystream cipher in its two key contexts.  Rc4::new  *)
(* runs the key schedule, apply_keystream XORs the output of the generator *)
(* onto the bytes.  Both functions build their Rc4 value inside the call,  *)
(* so every call XORs with the keystream from its first byte on; the       *)
(* keystream of each key is computed once, to KsLen bytes.                 *)
(***************************************************************************)
RESOURCE_KEY == <<95, 78, 112, 105, 95, 100, 101, 115, 116, 95, 95, 99, 99, 95, 38, 37, 95, 50, 51>>

ULIB_KEY == <<38, 33, 33, 95, 95, 107, 108, 95, 178, 226, 95, 73, 95, 48>>

\* one round of the key schedule
KsaStep(key, st, i) ==
    LET j2 == (st.j + st.S[i] + key[(i % Len(key)) + 1]) % 256
    IN  [S |-> [st.S EXCEPT ![i] = st.S[j2], ![j2] = st.S[i]], j |-> j2]

\* rounds lo..hi-1 of the key schedule (st.j is read first so that the state
\* of the earlier rounds is computed before the later ones start)
RECURSIVE KsaRange(_, _, _, _)
KsaRange(key, st, lo, hi) ==
    IF st.j < 0 \/ hi = lo THEN st
    ELSE IF hi = lo + 1 THEN KsaStep(key, st, lo)
    ELSE LET mid == (lo + hi) \div 2
         IN  KsaRange(key, KsaRange(key, st, lo, mid), mid, hi)

\* Rc4::new(key)
Rc4New(key) ==
    [S |-> KsaRange(key, [S |-> [i \in 0..255 |-> i], j |-> 0], 0, 256).S,
     i |-> 0, j |-> 0, out |-> <<>>]

\* one output byte of the generator
PrgaStep(st) ==
    LET i2 == (st.i + 1) % 256
        j2 == (st.j + st.S[i2]) % 256
        S2 == [st.S EXCEPT ![i2] = st.S[j2], ![j2] = st.S[i2]]
    IN  [S |-> S2, i |-> i2, j |-> j2,
         out |-> Append(st.out, S2[(S2[i2] + S2[j2]) % 256])]

RECURSIVE PrgaRange(_, _)
PrgaRange(st, n) ==
    IF st.j < 0 \/ n = 0 THEN st
    ELSE IF n = 1 THEN PrgaStep(st)
    ELSE PrgaRange(PrgaRange(st, n \div 2), n - (n \div 2))

\* the first KsLen keystream bytes of a freshly keyed cipher
ResKeystream == PrgaRange(Rc4New(RESOURCE_KEY), KsLen).out

UlibKeystream == PrgaRange(Rc4New(ULIB_KEY), KsLen).out

\* StreamCipher::apply_keystream on a fresh cipher
ApplyKeystream(ks, bytes) == [i \in 1..Len(bytes) |-> BitXor(bytes[i], ks[i])]

encrypt_res(plain) == ApplyKeystream(ResKeystream, plain)

\* a decrypt_res that keys itself with the entry key
decrypt_res_ulib_key(cipher) == ApplyKeystream(UlibKeystream, cipher)

decrypt_res(cipher) == encrypt_res(cipher)

encrypt_ulib(plain) == ApplyKeystream(UlibKeystream, plain)

decrypt_ulib(cipher) == encrypt_ulib(cipher)

(***************************************************************************)
(* The zlib stream of flate2.  The compressor is a library; it is modelled *)
(* by the stored-block form of RFC 1950/1951, which every zlib decoder     *)
(* reads: the two header bytes, one final stored block (its length and the *)
(* one's complement of it, then the bytes) and the big-endian Adler-32 of  *)
(* the bytes.  A stored block holds at most 65535 bytes, far above the     *)
(* model's inputs.                                                         *)
(***************************************************************************)
ZLIB_HEADER == <<120, 156>>

\* the Adler-32 checksum, as its four bytes in big-endian order
Adler32(d) ==
    LET n == Len(d)
        a == (1 + SumRange(d, 1, n)) % 65521
        w == [i \in 1..n |-> (n - i + 1) * d[i]]
        b == (n + SumRange(w, 1, n)) % 65521
    IN  <<b \div 256, b % 256, a \div 256, a % 256>>

ZlibEncode(d) ==
    LET n == Len(d)
    IN  ZLIB_HEADER \o <<1, n % 256, n \div 256, (65535 - n) % 256, (65535 - n) \div 256>>
        \o d \o Adler32(d)

\* What a ZlibDecoder yields from stream z: out, the bytes it produces before
\* it stops, and end, why it stops: "eof" (the stream ended as it should),
\* "corrupt" (a bad header, block or checksum) or "short" (the input ran out).
ZlibDecode(z) ==
    IF Len(z) < 2 THEN [out |-> <<>>, end |-> "short"]
    ELSE IF SubSeq(z, 1, 2) # ZLIB_HEADER THEN [out |-> <<>>, end |-> "corrupt"]
    ELSE IF Len(z) < 7 THEN [out |-> <<>>, end |-> "short"]
    ELSE IF z[3] # 1 THEN [out |-> <<>>, end |-> "corrupt"]
    ELSE LET n == z[4] + 256 * z[5]
             nn == z[6] + 256 * z[7]
             got == Min(n, Len(z) - 7)
             d == SubSeq(z, 8, 7 + got)
         IN  IF n + nn # 65535 THEN [out |-> <<>>, end |-> "corrupt"]
             ELSE IF Len(z) < 7 + n + 4 THEN [out |-> d, end |-> "short"]
             ELSE IF SubSeq(z, 8 + n, 11 + n) # Adler32(d)
                  THEN [out |-> d, end |-> "corrupt"]
             ELSE [out |-> d, end |-> "eof"]

(***************************************************************************)
(* crypto.rs: the codec.  A call returns the output buffer as the call     *)
(* leaves it and how the call ended: kind "ok", "err" (an io::Error with   *)
(* its ErrorKind and message) or "panic".                                  *)
(***************************************************************************)
COMPRESS_MAGIC == 54398733

\* an upper-case hexadecimal digit as its character code
HexDigit(v) == IF v < 10 THEN 48 + v ELSE 55 + v

\* hex::encode_upper
HexEncodeUpper(bytes) ==
    [i \in 1..(2 * Len(bytes)) |->
        IF i % 2 = 1 THEN HexDigit(bytes[(i + 1) \div 2] \div 16)
        ELSE HexDigit(bytes[i \div 2] % 16)]

\* a message that names the magic the codec expects, whatever it found
MagicTextExpected(m) == <<51, 51, 69, 48, 70, 48, 68>>

\* the text of format!("{:X}", magic) for the magic held in the four
\* little-endian bytes m: the hexadecimal digits without leading zeros
MagicText(m) ==
    LET digits == HexEncodeUpper(Reverse(m))
        lead == {i \in 1..8 : digits[i] # 48}
        first == IF lead = {} THEN 8 ELSE CHOOSE i \in lead : \A k \in lead : i <= k
    IN  SubSeq(digits, first, 8)

\* a compress that writes the length of the compressed stream as the size
compress_stream_len(data, buf) ==
    [buf |-> buf \o U32ToLe(COMPRESS_MAGIC) \o U32ToLe(Len(ZlibEncode(data)))
             \o ZlibEncode(data),
     kind |-> "ok", errkind |-> "", msg |-> <<>>]

\* data.len().try_into().unwrap() panics on a length above u32::MAX, which no
\* input of the model has
compress(data, buf) ==
    [buf |-> buf \o U32ToLe(COMPRESS_MAGIC) \o U32ToLe(Len(data)) \o ZlibEncode(data),
     kind |-> "ok", errkind |-> "", msg |-> <<>>]

\* a decompress that appends what the stream yields to the buffer as it
\* finds it, the declared size unused
decompress_keep_buffer(data, buf) ==
    IF Len(data) < 8
    THEN [buf |-> Resize(buf, 8), kind |-> "panic", errkind |-> "", msg |-> <<>>]
    ELSE IF SubSeq(data, 1, 4) # U32ToLe(COMPRESS_MAGIC)
    THEN [buf |-> SubSeq(data, 1, 8), kind |-> "err", errkind |-> "InvalidData",
          msg |-> MagicText(SubSeq(data, 1, 4))]
    ELSE [buf |-> buf \o ZlibDecode(SubSeq(data, 9, Len(data))).out,
          kind |-> "ok", errkind |-> "", msg |-> <<>>]

decompress(data, buf) ==
    IF Len(data) < 8
    THEN \* cursor.read_exact(buf).unwrap() on fewer than 8 bytes
         [buf |-> Resize(buf, 8), kind |-> "panic", errkind |-> "", msg |-> <<>>]
    ELSE LET head == SubSeq(data, 1, 8)
             magic == SubSeq(head, 1, 4)
             size == U32FromLe(SubSeq(head, 5, 8))
             z == ZlibDecode(SubSeq(data, 9, Len(data)))
             sized == Resize(head, size)
             filled == [i \in 1..size |-> IF i <= Len(z.out) THEN z.out[i] ELSE sized[i]]
         IN  IF magic # U32ToLe(COMPRESS_MAGIC)
             THEN [buf |-> head, kind |-> "err", errkind |-> "InvalidData",
                   msg |-> MagicText(magic)]
             ELSE IF Len(z.out) >= size
             THEN [buf |-> filled, kind |-> "ok", errkind |-> "", msg |-> <<>>]
             ELSE [buf |-> filled, kind |-> "err",
                   errkind |-> IF z.end = "corrupt" THEN "InvalidInput" ELSE "UnexpectedEof",
                   msg |-> <<>>]

(***************************************************************************)
(* SpecCrypto: the functions of crypto.rs called one after another, each   *)
(* on the bytes the call before it produced.  A run stops at the first     *)
(* call that fails.                                                        *)
(***************************************************************************)
NoError == [errkind |-> "", msg |-> <<>>]

\* what a caller may find in the buffer it passes
UsedBuffer == <<7, 7, 7, 7, 7, 7, 7, 7, 7, 7, 7, 7>>

CIdle ==
    /\ c_data = <<>>
    /\ c_orig = <<>>
    /\ c_ops = <<>>
    /\ c_hist = <<>>
    /\ c_status = "idle"
    /\ c_err = NoError

\* an input longer than the eight-byte header of the codec
LongSample == <<0, 1, 2, 3, 4, 5, 6, 7, 8, 255>>

\* a container as an uploader may send it: the magic, a declared size n and
\* the zlib stream of d, the declared size being right or not
Container(d, n) == U32ToLe(COMPRESS_MAGIC) \o U32ToLe(n) \o ZlibEncode(d)

\* containers that declare more, fewer and as many bytes as their stream
\* holds, and headers with no stream after them
ContainerSample ==
    {Container(<<13, 255>>, 3), Container(<<13, 255>>, 1), Container(<<13, 255>>, 2),
     U32ToLe(COMPRESS_MAGIC) \o U32ToLe(0), U32ToLe(COMPRESS_MAGIC) \o U32ToLe(1)}

CInit ==
    /\ c_data \in SeqsUpTo(ByteSample, MaxLen) \cup {LongSample} \cup ContainerSample
    /\ c_orig = c_data
    /\ c_ops = <<>>
    /\ c_hist = <<>>
    /\ c_status = "ok"
    /\ c_err = NoError

CanCall == c_status = "ok" /\ Len(c_ops) < MaxOps

CallCodec(name, r) ==
    /\ c_data' = r.buf
    /\ c_status' = r.kind
    /\ c_err' = [errkind |-> r.errkind, msg |-> r.msg]
    /\ c_ops' = Append(c_ops, name)
    /\ c_hist' = Append(c_hist, r.buf)
    /\ UNCHANGED c_orig

CallCipher(name, out) ==
    /\ c_data' = out
    /\ c_ops' = Append(c_ops, name)
    /\ c_hist' = Append(c_hist, out)
    /\ UNCHANGED <<c_orig, c_status, c_err>>

\* compress(&c_data, &mut buf) with a fresh buffer
Compress ==
    /\ CanCall
    /\ CallCodec("compress", compress(c_data, <<>>))
    /\ UNCHANGED <<bvars, gvars, ovars>>

\* compress(&c_data, &mut buf) with a buffer that already holds bytes
CompressAppend ==
    /\ CanCall
    /\ CallCodec("compress_append", compress(c_data, UsedBuffer))
    /\ UNCHANGED <<bvars, gvars, ovars>>

\* decompress(&c_data, &mut buf), whatever buf held before
Decompress ==
    /\ CanCall
    /\ \E prior \in {<<>>, UsedBuffer} :
          CallCodec("decompress", decompress(c_data, prior))
    /\ UNCHANGED <<bvars, gvars, ovars>>

EncryptRes ==
    /\ CanCall
    /\ CallCipher("encrypt_res", encrypt_res(c_data))
    /\ UNCHANGED <<bvars, gvars, ovars>>

DecryptRes ==
    /\ CanCall
    /\ CallCipher("decrypt_res", decrypt_res(c_data))
    /\ UNCHANGED <<bvars, gvars, ovars>>

EncryptUlib ==
    /\ CanCall
    /\ CallCipher("encrypt_ulib", encrypt_ulib(c_data))
    /\ UNCHANGED <<bvars, gvars, ovars>>

DecryptUlib ==
    /\ CanCall
    /\ CallCipher("decrypt_ulib", decrypt_ulib(c_data))
    /\ UNCHANGED <<bvars, gvars, ovars>>

NextCrypto ==
    \/ Compress
    \/ CompressAppend
    \/ Decompress
    \/ EncryptRes
    \/ DecryptRes
    \/ EncryptUlib
    \/ DecryptUlib

(***************************************************************************)
(* The text encodings of pack and extract_bundle.  A name is held as the   *)
(* sequence of its Unicode code points.  encoding_rs's GBK encoder writes  *)
(* an ASCII character as its one byte, a character of the code page as its *)
(* two bytes and any other character as the numeric character reference    *)
(* &#N; the decoder reads them back and turns a byte it cannot read into   *)
(* U+FFFD.  The code page is held for the characters the program's names   *)
(* and adaptor template use.                                               *)
(***************************************************************************)
GbkIndex ==
    {<<26680, <<186, 203>>>>, <<24515, <<208, 196>>>>, <<25968, <<202, 253>>>>,
     <<25454, <<190, 221>>>>, <<32479, <<205, 179>>>>, <<35745, <<188, 198>>>>}

RECURSIVE Decimal(_)
Decimal(n) == IF n < 10 THEN <<48 + n>> ELSE Append(Decimal(n \div 10), 48 + (n % 10))

GbkEncodeChar(c) ==
    IF c < 128 THEN <<c>>
    ELSE IF \E p \in GbkIndex : p[1] = c THEN (CHOOSE p \in GbkIndex : p[1] = c)[2]
    ELSE <<38, 35>> \o Decimal(c) \o <<59>>

\* GBK.encode(text).0
GbkEncode(text) == Concat([i \in 1..Len(text) |-> GbkEncodeChar(text[i])])

RECURSIVE GbkDecodeFrom(_, _)
GbkDecodeFrom(bytes, i) ==
    IF i > Len(bytes) THEN <<>>
    ELSE IF bytes[i] < 128 THEN <<bytes[i]>> \o GbkDecodeFrom(bytes, i + 1)
    ELSE IF i < Len(bytes) /\ \E p \in GbkIndex : p[2] = <<bytes[i], bytes[i + 1]>>
    THEN <<(CHOOSE p \in GbkIndex : p[2] = <<bytes[i], bytes[i + 1]>>)[1]>>
         \o GbkDecodeFrom(bytes, i + 2)
    ELSE <<65533>> \o GbkDecodeFrom(bytes, i + 1)

\* a decoder that reads every byte as a character of its own
GbkDecodeBytewise(bytes) == bytes

\* GBK.decode(bytes).0
GbkDecode(bytes) == GbkDecodeFrom(bytes, 1)

\* the value of a hexadecimal digit, -1 for any other character
HexValue(ch) ==
    IF ch >= 48 /\ ch <= 57 THEN ch - 48
    ELSE IF ch >= 65 /\ ch <= 70 THEN ch - 55
    ELSE IF ch >= 97 /\ ch <= 102 THEN ch - 87
    ELSE -1

\* hex::decode: an error on an odd length or on a character that is no digit
HexDecode(text) ==
    IF Len(text) % 2 = 1 \/ \E i \in 1..Len(text) : HexValue(text[i]) < 0
    THEN [ok |-> FALSE, bytes |-> <<>>]
    ELSE [ok |-> TRUE,
          bytes |-> [i \in 1..(Len(text) \div 2) |->
                        16 * HexValue(text[2 * i - 1]) + HexValue(text[2 * i])]]

\* the code points of the names the program gives its entries
NameChars(name) ==
    CASE name = "adaptor.lua" -> <<97, 100, 97, 112, 116, 111, 114, 46, 108, 117, 97>>
      [] name = "bundles.lua" -> <<98, 117, 110, 100, 108, 101, 115, 46, 108, 117, 97>>
      [] name = "database.lua" -> <<100, 97, 116, 97, 98, 97, 115, 101, 46, 108, 117, 97>>
      [] name = "hexin.lua" -> <<26680, 24515, 46, 108, 117, 97>>

(***************************************************************************)
(* The Lua runtime behind mlua.  It is an external service; the model      *)
(* keeps of it what the pipeline relies on.  A chunk is read line by line; *)
(* the one syntax error the model's chunks can hold is a string literal    *)
(* left open at the end of its line.  string.dump of a loaded chunk is     *)
(* the binary-chunk signature followed by the chunk's code, held as its    *)
(* text; executing a chunk performs, in order, the calls its lines make.   *)
(***************************************************************************)
LUA_SIGNATURE == <<27, 76, 117, 97>>

Positions(t, ch) == {i \in 1..Len(t) : t[i] = ch}

\* the k-th smallest element of the set of numbers S
Nth(S, k) == CHOOSE i \in S : Cardinality({j \in S : j < i}) = k - 1

\* the lines of a text: the stretches that end at a newline, and what follows
\* the last newline when that is not empty
Lines(t) ==
    LET nl == Positions(t, 10)
        n == Cardinality(nl)
        last == IF n = 0 THEN 0 ELSE Nth(nl, n)
        whole == [k \in 1..n |->
                    SubSeq(t, IF k = 1 THEN 1 ELSE Nth(nl, k - 1) + 1, Nth(nl, k) - 1)]
    IN  IF last < Len(t) THEN Append(whole, SubSeq(t, last + 1, Len(t))) ELSE whole

LuaSyntaxOk(chunk) ==
    LET lines == Lines(chunk)
    IN  \A k \in 1..Len(lines) : Cardinality(Positions(lines[k], 34)) % 2 = 0

U_LIB_OPEN == <<95, 95, 85, 95, 76, 105, 98, 40, 34>>

U_LIB_SEP == <<34, 44, 32, 34>>

U_LIB_CLOSE == <<34, 41>>

\* a line read as the statement __U_Lib("<name>", "<data>")
ParseCall(line) ==
    LET q == Positions(line, 34)
    IN  IF Cardinality(q) # 4 THEN [ok |-> FALSE, name |-> <<>>, data |-> <<>>]
        ELSE LET q1 == Nth(q, 1)
                 q2 == Nth(q, 2)
                 q3 == Nth(q, 3)
                 q4 == Nth(q, 4)
             IN  IF /\ SubSeq(line, 1, q1) = U_LIB_OPEN
                    /\ SubSeq(line, q2, q3) = U_LIB_SEP
                    /\ SubSeq(line, q4, Len(line)) = U_LIB_CLOSE
                 THEN [ok |-> TRUE, name |-> SubSeq(line, q1 + 1, q2 - 1),
                       data |-> SubSeq(line, q3 + 1, q4 - 1)]
                 ELSE [ok |-> FALSE, name |-> <<>>, data |-> <<>>]

\* the code of a chunk given as source text or as a dumped binary chunk
LuaCode(chunk) ==
    IF Len(chunk) >= 4 /\ SubSeq(chunk, 1, 4) = LUA_SIGNATURE
    THEN SubSeq(chunk, 5, Len(chunk))
    ELSE chunk

\* the __U_Lib calls that executing the chunk makes, in order
LuaCalls(chunk) ==
    LET lines == Lines(LuaCode(chunk))
        parsed == [k \in 1..Len(lines) |-> ParseCall(lines[k])]
        calls == {k \in 1..Len(lines) : parsed[k].ok}
    IN  [n \in 1..Cardinality(calls) |-> parsed[Nth(calls, n)]]

\* lua::compile: into_function().unwrap() panics on a chunk that does not
\* load; string.dump of a Lua function does not fail
lua_compile(chunk) ==
    IF LuaSyntaxOk(chunk)
    THEN [kind |-> "ok", value |-> LUA_SIGNATURE \o chunk]
    ELSE [kind |-> "panic", value |-> <<>>]

(***************************************************************************)
(* bundle.rs and the inline module bundle of lib.rs: Bundles.  entries is  *)
(* an IndexMap, held as the sequence of its slots.                         *)
(***************************************************************************)
Slot(name, payload) == [name |-> name, payload |-> payload]

HasKey(m, k) == \E i \in 1..Len(m) : m[i].name = k

IndexOf(m, k) == CHOOSE i \in 1..Len(m) : m[i].name = k

\* an insert that moves a key it already holds to the end
IndexMapInsertMoveLast(m, k, v) ==
    LET keep == {i \in 1..Len(m) : m[i].name # k}
    IN  Append([n \in 1..Cardinality(keep) |-> m[Nth(keep, n)]], Slot(k, v))

\* IndexMap::insert: a key the map holds keeps its slot and takes the value,
\* a new key takes the next slot
IndexMapInsert(m, k, v) ==
    IF HasKey(m, k)
    THEN [m EXCEPT ![IndexOf(m, k)].payload = v]
    ELSE Append(m, Slot(k, v))

\* the catalog of lib.rs: one library, empty
LIB_CATALOG == <<Slot("bundles.lua", <<>>)>>

\* The catalog of bundle.rs is read from static/bundle.txt and static/bundle
\* when the tool is built; those files are not part of the sources, so the
\* model takes the catalog to be any of these.
Catalogs ==
    {LIB_CATALOG,
     <<>>,
     <<Slot("database.lua", <<0>>), Slot("hexin.lua", <<13>>)>>,
     <<Slot("bundles.lua", <<>>), Slot("bundles.lua", <<255>>)>>}

RECURSIVE InsertAll(_, _, _)
InsertAll(m, catalog, i) ==
    IF i > Len(catalog) THEN m
    ELSE InsertAll(IndexMapInsert(m, catalog[i].name, catalog[i].payload), catalog, i + 1)

\* a with_adaptor that inserts the adaptor after the libraries
with_adaptor_libs_first(adaptorBytes, catalog) ==
    IndexMapInsert(InsertAll(<<>>, catalog, 1), "adaptor.lua", adaptorBytes)

\* Bundles::with_adaptor
with_adaptor(adaptorBytes, catalog) ==
    InsertAll(IndexMapInsert(<<>>, "adaptor.lua", adaptorBytes), catalog, 1)

\* Bundles::set_database
set_database(m, bytes) == IndexMapInsert(m, "database.lua", bytes)

\* the body of pack's loop for one entry: the statement and its newline
Statement(e) ==
    U_LIB_OPEN \o HexEncodeUpper(GbkEncode(NameChars(e.name))) \o U_LIB_SEP
    \o HexEncodeUpper(encrypt_ulib(compress(e.payload, <<>>).buf))
    \o U_LIB_CLOSE \o <<10>>

\* a loop that passes over the entries that hold no bytes
LoaderScriptSkipEmpty(m) ==
    Concat([i \in 1..Len(m) |-> IF m[i].payload = <<>> THEN <<>> ELSE Statement(m[i])])

\* the string s of pack after its loop
LoaderScript(m) == Concat([i \in 1..Len(m) |-> Statement(m[i])])

\* a pack that puts the entry cipher on the compiled script
pack_entry_key(m) ==
    LET s == LoaderScript(m)
        compiled == lua_compile(s)
    IN  IF compiled.kind = "ok"
        THEN [kind |-> "ok", value |-> encrypt_ulib(compiled.value), script |-> s]
        ELSE [kind |-> compiled.kind, value |-> <<>>, script |-> s]

\* Bundles::pack
pack(m) ==
    LET s == LoaderScript(m)
        compiled == lua_compile(s)
    IN  IF compiled.kind = "ok"
        THEN [kind |-> "ok", value |-> encrypt_res(compiled.value), script |-> s]
        ELSE [kind |-> compiled.kind, value |-> <<>>, script |-> s]

(***************************************************************************)
(* lib.rs, tests::extract_bundle: the verification tool.  It reads the     *)
(* artifact from a file that carries TRAILER_LEN bytes after it, cuts      *)
(* them off, undoes the container cipher and executes the chunk with       *)
(* __U_Lib bound to a function that decodes its two arguments and inserts  *)
(* the entry into an IndexMap keyed by the decoded name.                   *)
(***************************************************************************)
TRAILER_LEN == 10

Trailer == [i \in 1..TRAILER_LEN |-> 170]

\* the closure bound to __U_Lib, applied to one call: an error of hex::decode
\* is handed back, an error of decompress is dropped, its panic is not
ExtractCall(m, call) ==
    LET name == HexDecode(call.name)
        data == HexDecode(call.data)
        lua == decompress(decrypt_ulib(data.bytes), <<>>)
    IN  IF name.ok /\ data.ok /\ lua.kind # "panic"
        THEN [ok |-> TRUE, map |-> IndexMapInsert(m, GbkDecode(name.bytes), lua.buf)]
        ELSE [ok |-> FALSE, map |-> m]

RECURSIVE ExtractFrom(_, _, _)
ExtractFrom(m, calls, i) ==
    IF i > Len(calls) THEN [ok |-> TRUE, map |-> m]
    ELSE LET r == ExtractCall(m, calls[i])
         IN  IF r.ok THEN ExtractFrom(r.map, calls, i + 1) ELSE r

\* extract_bundle from decrypt_res on: the chunk is the artifact itself
ExtractEntries(chunk) == ExtractFrom(<<>>, LuaCalls(decrypt_res(chunk)), 1)

\* extract_bundle on the bytes of the file
extract_bundle(bytes) ==
    IF Len(bytes) < TRAILER_LEN THEN [ok |-> FALSE, map |-> <<>>]
    ELSE ExtractEntries(SubSeq(bytes, 1, Len(bytes) - TRAILER_LEN))

(***************************************************************************)
(* SpecBundle: a Bundles value made by with_adaptor, given its database    *)
(* any number of times, packed, and read back by extract_bundle.           *)
(***************************************************************************)
Payloads == SeqsUpTo(PayloadSample, MaxPayload)

\* the compiled databases a caller hands to set_database
DatabasePayloads == SeqsUpTo({255}, MaxPayload)

BIdle ==
    /\ b_pc = "idle"
    /\ entries = <<>>
    /\ b_hist = <<>>
    /\ b_script = <<>>
    /\ b_artifact = <<>>
    /\ b_file = <<>>
    /\ b_out = <<>>

BInit ==
    /\ b_pc = "new"
    /\ entries = <<>>
    /\ b_hist = <<>>
    /\ b_script = <<>>
    /\ b_artifact = <<>>
    /\ b_file = <<>>
    /\ b_out = <<>>

WithAdaptor ==
    /\ b_pc = "new"
    /\ \E a \in Payloads, catalog \in Catalogs :
          /\ entries' = with_adaptor(a, catalog)
          /\ b_hist' = <<Slot("adaptor.lua", a)>> \o catalog
    /\ b_pc' = "open"
    /\ UNCHANGED <<b_script, b_artifact, b_file, b_out>>
    /\ UNCHANGED <<cvars, gvars, ovars>>

SetDatabase ==
    /\ b_pc = "open"
    /\ Cardinality({i \in 1..Len(b_hist) : b_hist[i].name = "database.lua"}) < MaxSets
    /\ \E d \in DatabasePayloads :
          /\ entries' = set_database(entries, d)
          /\ b_hist' = Append(b_hist, Slot("database.lua", d))
    /\ UNCHANGED <<b_pc, b_script, b_artifact, b_file, b_out>>
    /\ UNCHANGED <<cvars, gvars, ovars>>

Pack ==
    /\ b_pc = "open"
    /\ LET r == pack(entries)
       IN  /\ b_pc' = IF r.kind = "ok" THEN "packed" ELSE "panic"
           /\ b_script' = r.script
           /\ b_artifact' = r.value
    /\ UNCHANGED <<entries, b_hist, b_file, b_out>>
    /\ UNCHANGED <<cvars, gvars, ovars>>

ExtractBundle ==
    /\ b_pc = "packed"
    /\ b_file' = b_artifact \o Trailer
    /\ LET r == extract_bundle(b_file')
       IN  /\ b_pc' = IF r.ok THEN "extracted" ELSE "panic"
           /\ b_out' = r.map
    /\ UNCHANGED <<entries, b_hist, b_script, b_artifact>>
    /\ UNCHANGED <<cvars, gvars, ovars>>

NextBundle ==
    \/ WithAdaptor
    \/ SetDatabase
    \/ Pack
    \/ ExtractBundle

(***************************************************************************)
(* lib.rs: GameRes, its builder methods, create_adaptor and build.  An     *)
(* Option is a record with the flag some.  A builder method returns the    *)
(* GameRes and whether its assertion held.                                 *)
(***************************************************************************)
None == [some |-> FALSE, val |-> <<>>]

Some(v) == [some |-> TRUE, val |-> v]

\* GameRes::new: the Default of every field
GameRes_new ==
    [keywords |-> None, database |-> None, statistics |-> FALSE,
     build_time |-> None, filename |-> None]

illegal_keywords(self, keywords) == [self EXCEPT !.keywords = Some(keywords)]

\* assert!(switch)
anti_memory_cheat(self, switch) == [ok |-> switch, res |-> self]

statistics(self, switch) == [self EXCEPT !.statistics = switch]

\* assert!(switch)
anti_speed_hack(self, switch) == [ok |-> switch, res |-> self]

\* main.rs calls build_time and filename on the builder; the GameRes of
\* lib.rs has neither, so they are taken from the specification's adaptor
\* parameters: each stores its argument
build_time(self, t) == [self EXCEPT !.build_time = Some(t)]

filename(self, name) == [self EXCEPT !.filename = Some(name)]

game_lua(self, data) == [self EXCEPT !.database = Some(data)]

\* the template of create_adaptor up to the statistics switch
ADAPTOR_HEAD ==
    <<10, 32, 32, 32, 32, 32, 32, 32, 32, 108, 111, 99, 97, 108, 32, 102, 49, 32, 61, 32,
      26680, 24515, 46, 25968, 25454, 32479, 35745, 10, 32, 32, 32, 32, 32, 32, 32, 32,
      26680, 24515, 46, 25968, 25454, 32479, 35745, 32, 61, 32, 102, 117, 110, 99, 116,
      105, 111, 110, 40, 117, 105, 100, 44, 32, 103, 105, 100, 44, 32, 117, 110, 107, 44,
      32, 104, 97, 115, 104, 44, 32, 116, 105, 109, 101, 41, 10, 32, 32, 32, 32, 32, 32,
      32, 32, 32, 32, 32, 32, 105, 102, 32>>

\* the template of create_adaptor from the switch to the time, with uid = 0,
\* gid = 0 and hash = "" filled in
ADAPTOR_CALL ==
    <<32, 116, 104, 101, 110, 10, 32, 32, 32, 32, 32, 32, 32, 32, 32, 32, 32, 32, 32, 32,
      32, 32, 102, 49, 40, 48, 44, 32, 48, 44, 32, 49, 44, 32, 34, 34, 44, 32, 34>>

\* the template of create_adaptor from the time to the keywords
ADAPTOR_HOOK ==
    <<34, 41, 10, 32, 32, 32, 32, 32, 32, 32, 32, 32, 32, 32, 32, 101, 110, 100, 10, 32,
      32, 32, 32, 32, 32, 32, 32, 101, 110, 100, 10, 32, 32, 32, 32, 32, 32, 32, 32, 108,
      111, 99, 97, 108, 32, 102, 50, 32, 61, 32, 26680, 24515, 46, 97, 110, 116, 105, 95,
      104, 97, 99, 107, 105, 110, 103, 10, 32, 32, 32, 32, 32, 32, 32, 32, 26680, 24515,
      46, 97, 110, 116, 105, 95, 104, 97, 99, 107, 105, 110, 103, 32, 61, 32, 102, 117,
      110, 99, 116, 105, 111, 110, 40, 101, 110, 97, 98, 108, 101, 100, 44, 32, 107, 101,
      121, 119, 111, 114, 100, 115, 41, 10, 32, 32, 32, 32, 32, 32, 32, 32, 32, 32, 32,
      32, 102, 50, 40, 49, 44, 32, 34>>

\* the template of create_adaptor after the keywords
ADAPTOR_TAIL ==
    <<34, 41, 10, 32, 32, 32, 32, 32, 32, 32, 32, 101, 110, 100, 10, 32, 32, 32, 32, 32,
      32, 32, 32>>

\* the text of a bool under format!
BoolText(b) == IF b THEN <<116, 114, 117, 101>> ELSE <<102, 97, 108, 115, 101>>

\* GameRes::create_adaptor, reading the wall clock as t
create_adaptor(self, t) ==
    GbkEncode(ADAPTOR_HEAD \o BoolText(self.statistics) \o ADAPTOR_CALL \o t
              \o ADAPTOR_HOOK \o (IF self.keywords.some THEN self.keywords.val ELSE <<>>)
              \o ADAPTOR_TAIL)

(***************************************************************************)
(* main.rs: compile, the option check in front of the builder.             *)
(***************************************************************************)
GameTypes == {"Login", "AutoUpdate", "Offline"}

\* a check that lets a request with no feature flag through
check_options_any_flags(opt) ==
    IF opt.op_login # "Offline" THEN "unsupported game type"
    ELSE IF ~opt.op_delad THEN "unknown option delad"
    ELSE ""

\* the three early returns of compile: the error text, "" when none is taken
check_options(opt) ==
    IF opt.op_login # "Offline" THEN "unsupported game type"
    ELSE IF ~opt.op_delad THEN "unknown option delad"
    ELSE IF ~opt.op_jiasu /\ ~opt.op_qudong /\ ~opt.op_safedata THEN "unsupported option"
    ELSE ""

(***************************************************************************)
(* Spec: one request.  A server request (pc = "compile") enters main.rs    *)
(* compile with the uploaded file and its options; a library caller        *)
(* (pc = "library") uses the builder of lib.rs directly.  The stages of    *)
(* compile and build are taken one at a time; trace records them.          *)
(***************************************************************************)
\* op_keywords: none, two letters, a text that holds a double quote, and a
\* text that holds two (a quote, a comma, a quote)
KeywordSample == {<<>>, <<119, 103>>, <<120, 34, 121>>, <<34, 44, 34>>}

\* the database file: empty, a=1, and a=" (a string left open)
FileSample == {<<>>, <<97, 61, 49>>, <<97, 61, 34>>}

\* wall-clock readings as [year]-[month]-[day] [hour]:[minute]:[second]
Times ==
    {<<50, 48, 50, 50, 45, 48, 56, 45, 48, 49, 32, 48, 48, 58, 48, 48, 58, 48, 48>>,
     <<50, 48, 50, 50, 45, 48, 56, 45, 48, 49, 32, 48, 48, 58, 48, 48, 58, 48, 49>>}

\* the filename of the request
FILE_NAME == <<49>>

Options ==
    [op_login : GameTypes, op_delad : BOOLEAN, op_safedata : BOOLEAN,
     op_statistics : BOOLEAN, op_jiasu : BOOLEAN, op_qudong : BOOLEAN,
     op_keywords : KeywordSample, build_time : Times]

\* the options a library caller stands for: every switch on
LibraryOptions ==
    {o \in Options : /\ o.op_login = "Offline" /\ o.op_delad /\ o.op_safedata
                      /\ o.op_jiasu /\ o.op_qudong
                      /\ o.build_time = CHOOSE t \in Times : TRUE}

NoOutcome == [kind |-> "none", value |-> <<>>, msg |-> ""]

Failed(msg) == [kind |-> "err", value |-> <<>>, msg |-> msg]

Panicked(msg) == [kind |-> "panic", value |-> <<>>, msg |-> msg]

Built(bytes) == [kind |-> "ok", value |-> bytes, msg |-> ""]

GIdle ==
    /\ pc = "idle"
    /\ option = CHOOSE o \in LibraryOptions : TRUE
    /\ file = <<>>
    /\ res = GameRes_new
    /\ now = <<>>
    /\ bytecode = <<>>
    /\ adaptor = <<>>
    /\ bundles = <<>>
    /\ outcome = NoOutcome
    /\ trace = <<>>

GInit ==
    /\ \/ pc = "compile" /\ option \in Options
       \/ pc = "library" /\ option \in LibraryOptions
    /\ file \in FileSample
    /\ res = GameRes_new
    /\ now = <<>>
    /\ bytecode = <<>>
    /\ adaptor = <<>>
    /\ bundles = <<>>
    /\ outcome = NoOutcome
    /\ trace = <<>>

Finish(result) ==
    /\ pc' = "done"
    /\ outcome' = result

\* compile, main.rs: the early returns
CheckOptions ==
    /\ pc = "compile"
    /\ trace' = Append(trace, "check")
    /\ IF check_options(option) # ""
       THEN Finish(Failed(check_options(option)))
       ELSE pc' = "builder" /\ UNCHANGED outcome
    /\ UNCHANGED <<option, file, res, now, bytecode, adaptor, bundles>>
    /\ UNCHANGED <<cvars, bvars, ovars>>

\* compile, main.rs: the builder chain from GameRes::new to game_lua
Builder ==
    /\ pc = "builder"
    /\ trace' = Append(trace, "builder")
    /\ LET r1 == illegal_keywords(GameRes_new, option.op_keywords)
           r2 == anti_memory_cheat(r1, option.op_safedata)
           r3 == anti_speed_hack(r2.res, option.op_jiasu)
           r4 == statistics(r3.res, option.op_statistics)
           r5 == build_time(r4, option.build_time)
           r6 == filename(r5, FILE_NAME)
           r7 == game_lua(r6, file)
       IN  IF ~r2.ok
           THEN res' = r1 /\ Finish(Panicked("assertion failed: switch"))
           ELSE IF ~r3.ok
           THEN res' = r2.res /\ Finish(Panicked("assertion failed: switch"))
           ELSE res' = r7 /\ pc' = "build" /\ UNCHANGED outcome
    /\ UNCHANGED <<option, file, now, bytecode, adaptor, bundles>>
    /\ UNCHANGED <<cvars, bvars, ovars>>

\* a caller of the library: the builder with every switch on, with or
\* without game_lua
LibraryBuilder ==
    /\ pc = "library"
    /\ trace' = Append(trace, "builder")
    /\ \E withDatabase \in BOOLEAN :
          LET r1 == illegal_keywords(GameRes_new, option.op_keywords)
              r2 == anti_memory_cheat(r1, TRUE)
              r3 == anti_speed_hack(r2.res, TRUE)
              r4 == statistics(r3.res, option.op_statistics)
          IN  res' = IF withDatabase THEN game_lua(r4, file) ELSE r4
    /\ pc' = "build"
    /\ UNCHANGED <<option, file, now, bytecode, adaptor, bundles, outcome>>
    /\ UNCHANGED <<cvars, bvars, ovars>>

\* build: the database taken from the builder and compiled
BuildCompileDatabase ==
    /\ pc = "build"
    /\ trace' = Append(trace, "compile_database")
    /\ IF ~res.database.some
       THEN Finish(Panicked("database should set")) /\ UNCHANGED bytecode
       ELSE LET r == lua_compile(res.database.val)
            IN  IF r.kind = "ok"
                THEN bytecode' = r.value /\ pc' = "adaptor" /\ UNCHANGED outcome
                ELSE Finish(Panicked("called Result::unwrap() on an Err value"))
                     /\ UNCHANGED bytecode
    /\ UNCHANGED <<option, file, res, now, adaptor, bundles>>
    /\ UNCHANGED <<cvars, bvars, ovars>>

\* build: the adaptor generated at the wall-clock time t and compiled
BuildAdaptor ==
    /\ pc = "adaptor"
    /\ trace' = Append(trace, "compile_adaptor")
    /\ \E t \in Times :
          /\ now' = t
          /\ LET r == lua_compile(create_adaptor(res, t))
             IN  IF r.kind = "ok"
                 THEN adaptor' = r.value /\ pc' = "assemble" /\ UNCHANGED outcome
                 ELSE Finish(Panicked("called Result::unwrap() on an Err value"))
                      /\ UNCHANGED adaptor
    /\ UNCHANGED <<option, file, res, bytecode, bundles>>
    /\ UNCHANGED <<cvars, bvars, ovars>>

\* build: Bundles::with_adaptor and set_database
BuildAssemble ==
    /\ pc = "assemble"
    /\ trace' = Append(trace, "assemble")
    /\ bundles' = set_database(with_adaptor(adaptor, LIB_CATALOG), bytecode)
    /\ pc' = "pack"
    /\ UNCHANGED <<option, file, res, now, bytecode, adaptor, outcome>>
    /\ UNCHANGED <<cvars, bvars, ovars>>

\* build: pack, and the result handed back through compile
BuildPack ==
    /\ pc = "pack"
    /\ trace' = Append(trace, "pack")
    /\ LET r == pack(bundles)
       IN  Finish(IF r.kind = "ok" THEN Built(r.value)
                  ELSE Panicked("called Result::unwrap() on an Err value"))
    /\ UNCHANGED <<option, file, res, now, bytecode, adaptor, bundles>>
    /\ UNCHANGED <<cvars, bvars, ovars>>

Next ==
    \/ CheckOptions
    \/ Builder
    \/ LibraryBuilder
    \/ BuildCompileDatabase
    \/ BuildAdaptor
    \/ BuildAssemble
    \/ BuildPack

(***************************************************************************)
(* The specifications.                                                     *)
(***************************************************************************)
Init == CIdle /\ BIdle /\ GInit /\ OIdle

Spec == Init /\ [][Next]_vars

InitCrypto == CInit /\ BIdle /\ GIdle /\ OIdle

SpecCrypto == InitCrypto /\ [][NextCrypto]_vars

InitBundle == CIdle /\ BInit /\ GIdle /\ OIdle

SpecBundle == InitBundle /\ [][NextBundle]_vars

(***************************************************************************)
(* SpecName: one resource name through the identifier obfuscation of pack  *)
(* (GBK, then upper-case hex) and back through the closure of              *)
(* extract_bundle (hex::decode, then GBK.decode).                          *)
(***************************************************************************)
\* characters of names: letters and marks of ASCII, two characters of the
\* code page, and one character outside it
NameCharSample == {97, 46, 38, 26680, 24515, 128512}

\* the character has a GBK encoding of its own
Representable(c) == c < 128 \/ \E p \in GbkIndex : p[1] = c

NInit ==
    /\ n_pc = "name"
    /\ n_name \in SeqsUpTo(NameCharSample, MaxName)
    /\ n_id = <<>>
    /\ n_back = <<>>

\* pack: name = hex::encode_upper(GBK.encode(name).0)
Obfuscate ==
    /\ n_pc = "name"
    /\ n_id' = HexEncodeUpper(GbkEncode(n_name))
    /\ n_pc' = "packed"
    /\ UNCHANGED <<n_name, n_back>>
    /\ UNCHANGED <<cvars, bvars, gvars, svars>>

\* extract_bundle: GBK.decode(&hex::decode(name)?).0
Recover ==
    /\ n_pc = "packed"
    /\ LET raw == HexDecode(n_id)
       IN  IF raw.ok
           THEN n_back' = GbkDecode(raw.bytes) /\ n_pc' = "decoded"
           ELSE n_back' = <<>> /\ n_pc' = "error"
    /\ UNCHANGED <<n_name, n_id>>
    /\ UNCHANGED <<cvars, bvars, gvars, svars>>

NextName ==
    \/ Obfuscate
    \/ Recover

InitName == CIdle /\ BIdle /\ GIdle /\ NInit /\ SNew

SpecName == InitName /\ [][NextName]_vars

(***************************************************************************)
(* lib.rs and main.rs: build and compile as functions of their arguments   *)
(* and of the wall clock, the stages of Spec taken in one go.              *)
(***************************************************************************)
UNWRAP_PANIC == "called Result::unwrap() on an Err value"

\* GameRes::build, create_adaptor reading the wall clock as t
build(self, t) ==
    IF ~self.database.some THEN Panicked("database should set")
    ELSE LET bc == lua_compile(self.database.val)
             ad == lua_compile(create_adaptor(self, t))
             packed == pack(set_database(with_adaptor(ad.value, LIB_CATALOG), bc.value))
         IN  IF bc.kind # "ok" \/ ad.kind # "ok" \/ packed.kind # "ok"
             THEN Panicked(UNWRAP_PANIC)
             ELSE Built(packed.value)

\* compile, main.rs
compile(data, opt, t) ==
    IF check_options(opt) # "" THEN Failed(check_options(opt))
    ELSE LET r1 == illegal_keywords(GameRes_new, opt.op_keywords)
             r2 == anti_memory_cheat(r1, opt.op_safedata)
             r3 == anti_speed_hack(r2.res, opt.op_jiasu)
             r4 == statistics(r3.res, opt.op_statistics)
             r5 == build_time(r4, opt.build_time)
             r6 == filename(r5, FILE_NAME)
             r7 == game_lua(r6, data)
         IN  IF ~r2.ok \/ ~r3.ok THEN Panicked("assertion failed: switch")
             ELSE build(r7, t)

(***************************************************************************)
(* main.rs: the server.  SharedState holds the session store, the uploaded *)
(* files and the results; each connection task of Procs handles one        *)
(* request at a time, and the tasks run side by side on the threads of the *)
(* runtime, so the steps of two handlers interleave at every access to     *)
(* shared data.  A session loaded from the MemoryStore shares its data map *)
(* with the stored one, so an insert through the handle reaches the store. *)
(* A handler that panics unwinds: its lock guards are dropped and the      *)
(* connection gets no response.                                            *)
(***************************************************************************)
\* cookies that name no session: no PHPSESSID, a value that is not base64
\* or not UTF-8, a value the store cannot read, a value of no stored session
CookieSample == {"none", "garbled", "corrupt", "unknown"}

\* the wall clock read by submit_compile and by create_adaptor
SERVER_TIME == CHOOSE t \in Times : TRUE

\* the feature flags of a submission: op_safedata and op_jiasu, none, or
\* op_safedata alone
FlagSample == {"both", "none", "safedata"}

ServerOption(flags) ==
    [op_login |-> "Offline", op_delad |-> TRUE, op_safedata |-> flags # "none",
     op_statistics |-> FALSE, op_jiasu |-> flags = "both", op_qudong |-> FALSE,
     op_keywords |-> <<>>, build_time |-> SERVER_TIME]

\* the data part of an upload: a container of a=1, ten bytes with another
\* magic, one byte
UPLOADED_SCRIPT == <<97, 61, 49>>

UploadSample == {compress(UPLOADED_SCRIPT, <<>>).buf, LongSample, <<13>>}

\* the names a submission asks for: the uploaded one and another
FileNameSample == {"1", "2"}

\* the ids a client asks for
IdSample == {0, 1}

Status(code) == [status |-> code, sess |-> "none"]

\* check_session: the status it fails with, or "" and the session
check_session(store, cookie) ==
    IF cookie = "none" THEN Status("UNAUTHORIZED")
    ELSE IF cookie = "garbled" THEN Status("BAD_REQUEST")
    ELSE IF cookie = "corrupt" THEN Status("INTERNAL_SERVER_ERROR")
    ELSE IF cookie \notin store THEN Status("UNAUTHORIZED")
    ELSE [status |-> "", sess |-> cookie]

\* the keys of the HashMap<u32, CompileTask> of a session
TaskIds(tasks) == {e.key : e \in tasks}

\* a check_id_in_session that lets every id pass
check_id_any(id, tasks) == ""

\* check_id_in_session on the "tasks" of the session
check_id_in_session(id, tasks) == IF id \in TaskIds(tasks) THEN "" ELSE "FORBIDDEN"

\* HashMap::insert
MapInsert(m, key, value) == {e \in m : e.key # key} \cup {[key |-> key, value |-> value]}

MapHas(m, key) == \E e \in m : e.key = key

MapGet(m, key) == (CHOOSE e \in m : e.key = key).value

\* tasks.insert(id, CompileTask { id, .. })
TasksInsert(tasks, id, task) == MapInsert(tasks, id, task)

\* a status that stays at the first value of CompileStatus
TaskStatusProcessing(result) == "Processing"

\* let status = match result { Ok(_) => Done, Err(_) => Failed }
TaskStatus(result) == IF result.ok THEN "Done" ELSE "Failed"

\* files.get(..).unwrap_or_default(): an empty file for a missing name
files_get_or_default(files, name) ==
    IF \E e \in files : e.key = name
    THEN Some((CHOOSE e \in files : e.key = name).value)
    ELSE Some(<<>>)

\* files.get(&option.filename)
files_get(files, name) == IF MapHas(files, name) THEN Some(MapGet(files, name)) ELSE None

\* the id a submission takes under the write lock: results.len()
NextId(results) == Len(results)

\* results.push that puts the result in front
ResultsPushFront(results, r) == <<r>> \o results

\* results.push(result)
ResultsPush(results, r) == Append(results, r)

\* compile(..).and_then(compress): the Result stored, or a panic
submit_result(data, opt, t) ==
    LET r == compile(data, opt, t)
    IN  IF r.kind = "ok"
        THEN [kind |-> "ok",
              result |-> [ok |-> TRUE, data |-> compress(r.value, <<>>).buf, err |-> ""]]
        ELSE IF r.kind = "err"
        THEN [kind |-> "ok", result |-> [ok |-> FALSE, data |-> <<>>, err |-> r.msg]]
        ELSE [kind |-> "panic", result |-> NoResult]

\* submit_result of the uploaded script under each set of flags, computed once
SubmitResults ==
    [f \in FlagSample |-> submit_result(UPLOADED_SCRIPT, ServerOption(f), SERVER_TIME)]

Respond(code, text) == [status |-> code, text |-> text, data |-> <<>>, tasks |-> {}]

\* a download that hands out whatever is stored at the id
download_any(results, id) ==
    IF id >= Len(results) THEN Respond("NOT_FOUND", "no such data for that id")
    ELSE [Respond("OK", "") EXCEPT !.data = results[id + 1].data]

\* download, from results.get(id as usize) on
download_result(results, id) ==
    IF id >= Len(results)
    THEN Respond("NOT_FOUND", "no such data for that id")
    ELSE IF ~results[id + 1].ok
    THEN Respond("PRECONDITION_FAILED", "compile failed")
    ELSE [Respond("OK", "") EXCEPT !.data = results[id + 1].data]

\* get_fail_reason, from results.get(id as usize) on
get_fail_reason_result(results, id) ==
    IF id >= Len(results) THEN Respond("NOT_FOUND", "")
    ELSE IF results[id + 1].ok THEN Respond("PRECONDITION_FAILED", "")
    ELSE Respond("OK", results[id + 1].err)

\* the connection task can take a request
Free(p) == s_proc[p].pc = "idle"

\* a reader takes an RwLock when no writer holds it, a writer when nobody does
CanRead(lock) == lock.writer = {}

CanWrite(lock) == lock.writer = {} /\ lock.readers = {}

\* a guard that is never dropped
ReleaseNothing(lock, p) == lock

Release(lock, p) == [readers |-> lock.readers \ {p}, writer |-> lock.writer \ {p}]

Begin(kind, cookie) == [IdleProc EXCEPT !.kind = kind, !.cookie = cookie]

\* the handler returns: what the client sent and what it gets back
Reply(me, resp) ==
    [IdleProc EXCEPT !.kind = me.kind, !.pc = "done", !.cookie = me.cookie,
                     !.sess = me.sess, !.id = me.id, !.resp = resp]

\* the handler of p goes on as next; when it has returned, its locals are
\* dropped, the reply goes out and the connection waits for a request
Step(p, next) ==
    IF next.pc = "done"
    THEN /\ s_proc' = [s_proc EXCEPT ![p] = IdleProc]
         /\ s_reply' = next
    ELSE /\ s_proc' = [s_proc EXCEPT ![p] = next]
         /\ UNCHANGED s_reply

\* dev_login
DevLogin(p) ==
    \E user \in {"member", "wrong_password", "not_member"} :
        /\ Free(p)
        /\ s_sessions # SessionIds
        /\ LET new == CHOOSE x \in SessionIds : x \notin s_sessions
               req == Begin("login", "none")
           IN  IF user = "not_member"
               THEN /\ Step(p, Reply(req, Respond("INTERNAL_SERVER_ERROR",
                                                  "assertion failed")))
                    /\ UNCHANGED s_sessions
               ELSE IF user = "wrong_password"
               THEN /\ Step(p, Reply(req, Respond("FORBIDDEN",
                                                  "incorrect username or password")))
                    /\ UNCHANGED s_sessions
               ELSE /\ s_sessions' = s_sessions \cup {new}
                    /\ Step(p, Reply([req EXCEPT !.sess = new], Respond("OK", "ok|1|2|76")))
        /\ UNCHANGED <<s_tasks, s_files, s_results, s_flock, s_rlock, s_started,
                       s_owner, s_acked>>
        /\ UNCHANGED <<cvars, bvars, gvars, nvars>>

\* UploadedFile::from_request, from crypto::decompress on
UploadExtract(p) ==
    \E data \in UploadSample :
        /\ Free(p)
        /\ LET r == decompress(data, <<>>)
               req == [Begin("upload", "none") EXCEPT !.fname = "1"]
           IN  Step(p, IF r.kind = "panic"
                       THEN Reply(req, Respond("panic", ""))
                       ELSE IF r.kind = "err"
                       THEN Reply(req, Respond("INTERNAL_SERVER_ERROR", "decompress error"))
                       ELSE [req EXCEPT !.pc = "files_write", !.result.data = r.buf])
        /\ UNCHANGED <<s_sessions, s_tasks, s_files, s_results, s_flock, s_rlock,
                       s_started, s_owner, s_acked>>
        /\ UNCHANGED <<cvars, bvars, gvars, nvars>>

\* upload: files.write().await, files.insert, the guard dropped
UploadInsert(p) ==
        /\ s_proc[p].pc = "files_write"
        /\ CanWrite(s_flock)
        /\ s_files' = MapInsert(s_files, s_proc[p].fname, s_proc[p].result.data)
        /\ Step(p, Reply(s_proc[p], Respond("OK", "ok")))
        /\ UNCHANGED <<s_sessions, s_tasks, s_results, s_flock, s_rlock, s_started,
                       s_owner, s_acked>>
        /\ UNCHANGED <<cvars, bvars, gvars, nvars>>

\* submit_compile: check_session
SubmitCheckSession(p) ==
    \E cookie \in CookieSample \cup s_sessions :
        /\ Free(p)
        /\ s_started < MaxSubmits
        /\ s_started' = s_started + 1
        /\ LET c == check_session(s_sessions, cookie)
               req == Begin("submit", cookie)
           IN  IF c.status # ""
               THEN Step(p, Reply(req, Respond(c.status, "")))
               ELSE \E name \in FileNameSample, flags \in FlagSample :
                        Step(p, [req EXCEPT !.pc = "files_read", !.sess = c.sess,
                                            !.fname = name, !.flags = flags])
        /\ UNCHANGED <<s_sessions, s_tasks, s_files, s_results, s_flock, s_rlock,
                       s_owner, s_acked>>
        /\ UNCHANGED <<cvars, bvars, gvars, nvars>>

\* submit_compile: files.read().await, files.get, compile and compress
SubmitReadFiles(p) ==
        /\ s_proc[p].pc = "files_read"
        /\ CanRead(s_flock)
        /\ IF ~files_get(s_files, s_proc[p].fname).some
           THEN /\ Step(p, Reply(s_proc[p], Respond("PRECONDITION_REQUIRED", "")))
                /\ UNCHANGED s_flock
           ELSE LET data == files_get(s_files, s_proc[p].fname).val
                    r == IF data = UPLOADED_SCRIPT
                         THEN SubmitResults[s_proc[p].flags]
                         ELSE submit_result(data, ServerOption(s_proc[p].flags), SERVER_TIME)
                IN  IF r.kind = "panic"
                    THEN /\ Step(p, Reply(s_proc[p], Respond("panic", "")))
                         /\ UNCHANGED s_flock
                    ELSE /\ Step(p, [s_proc[p] EXCEPT !.pc = "results_write",
                                                      !.flags = "", !.result = r.result])
                         /\ s_flock' = [s_flock EXCEPT !.readers = @ \cup {p}]
        /\ UNCHANGED <<s_sessions, s_tasks, s_files, s_results, s_rlock, s_started,
                       s_owner, s_acked>>
        /\ UNCHANGED <<cvars, bvars, gvars, nvars>>

\* submit_compile: results.write().await
SubmitLockResults(p) ==
        /\ s_proc[p].pc = "results_write"
        /\ CanWrite(s_rlock)
        /\ s_rlock' = [s_rlock EXCEPT !.writer = {p}]
        /\ Step(p, [s_proc[p] EXCEPT !.pc = "results_len"])
        /\ UNCHANGED <<s_sessions, s_tasks, s_files, s_results, s_flock, s_started,
                       s_owner, s_acked>>
        /\ UNCHANGED <<cvars, bvars, gvars, nvars>>

\* submit_compile: let id = results.len() as u32
SubmitReadLen(p) ==
        /\ s_proc[p].pc = "results_len"
        /\ Step(p, [s_proc[p] EXCEPT !.pc = "results_push", !.id = NextId(s_results)])
        /\ UNCHANGED <<s_sessions, s_tasks, s_files, s_results, s_flock, s_rlock,
                       s_started, s_owner, s_acked>>
        /\ UNCHANGED <<cvars, bvars, gvars, nvars>>

\* submit_compile: results.push(result), the write guard dropped
SubmitPush(p) ==
        /\ s_proc[p].pc = "results_push"
        /\ s_results' = ResultsPush(s_results, s_proc[p].result)
        /\ s_owner' = Append(s_owner, s_proc[p].sess)
        /\ s_rlock' = Release(s_rlock, p)
        /\ Step(p, [s_proc[p] EXCEPT !.pc = "tasks_get",
                                     !.result = [NoResult EXCEPT !.ok = s_proc[p].result.ok]])
        /\ UNCHANGED <<s_sessions, s_tasks, s_files, s_flock, s_started, s_acked>>
        /\ UNCHANGED <<cvars, bvars, gvars, nvars>>

\* submit_compile: session.get("tasks").unwrap_or_default()
SubmitGetTasks(p) ==
        /\ s_proc[p].pc = "tasks_get"
        /\ Step(p, [s_proc[p] EXCEPT !.pc = "tasks_insert", !.tasks = s_tasks[s_proc[p].sess]])
        /\ UNCHANGED <<s_sessions, s_tasks, s_files, s_results, s_flock, s_rlock,
                       s_started, s_owner, s_acked>>
        /\ UNCHANGED <<cvars, bvars, gvars, nvars>>

\* submit_compile: tasks.insert, session.insert("tasks", tasks), Ok("ok"),
\* the files guard dropped
SubmitInsertTasks(p) ==
        /\ s_proc[p].pc = "tasks_insert"
        /\ LET me == s_proc[p]
               task == [id |-> me.id, filename |-> me.fname,
                        status |-> TaskStatus(me.result)]
           IN  /\ s_tasks' = [s_tasks EXCEPT ![me.sess] = TasksInsert(me.tasks, me.id, task)]
               /\ s_acked' = s_acked \cup {<<me.sess, me.id>>}
        /\ s_flock' = Release(s_flock, p)
        /\ Step(p, Reply(s_proc[p], Respond("OK", "ok")))
        /\ UNCHANGED <<s_sessions, s_files, s_results, s_rlock, s_started, s_owner>>
        /\ UNCHANGED <<cvars, bvars, gvars, nvars>>

\* get_compile_list
GetCompileList(p) ==
    \E cookie \in CookieSample \cup s_sessions :
        /\ Free(p)
        /\ LET c == check_session(s_sessions, cookie)
               req == Begin("list", cookie)
           IN  Step(p, IF c.status # ""
                       THEN Reply(req, Respond(c.status, ""))
                       ELSE Reply([req EXCEPT !.sess = c.sess],
                                  [Respond("OK", "ok") EXCEPT !.tasks = s_tasks[c.sess]]))
        /\ UNCHANGED <<s_sessions, s_tasks, s_files, s_results, s_flock, s_rlock,
                       s_started, s_owner, s_acked>>
        /\ UNCHANGED <<cvars, bvars, gvars, nvars>>

\* get_fail_reason and download: check_session and check_id_in_session
QueryCheck(p, kind, cookie, id) ==
    /\ Free(p)
    /\ LET c == check_session(s_sessions, cookie)
           req == [Begin(kind, cookie) EXCEPT !.id = id]
       IN  Step(p, IF c.status # ""
                   THEN Reply(req, Respond(c.status,
                              IF kind = "download" THEN "invalid session" ELSE ""))
                   ELSE IF check_id_in_session(id, s_tasks[c.sess]) # ""
                   THEN Reply([req EXCEPT !.sess = c.sess],
                              Respond(check_id_in_session(id, s_tasks[c.sess]),
                                      IF kind = "download" THEN "invalid id" ELSE ""))
                   ELSE [req EXCEPT !.pc = "results_read", !.sess = c.sess])
    /\ UNCHANGED <<s_sessions, s_tasks, s_files, s_results, s_flock, s_rlock,
                   s_started, s_owner, s_acked>>
    /\ UNCHANGED <<cvars, bvars, gvars, nvars>>

ReasonCheck(p) ==
    \E cookie \in CookieSample \cup s_sessions, id \in IdSample :
        QueryCheck(p, "reason", cookie, id)

DownloadCheck(p) ==
    \E cookie \in CookieSample \cup s_sessions, id \in IdSample :
        QueryCheck(p, "download", cookie, id)

\* get_fail_reason: results.read().await and the answer
ReasonRead(p) ==
        /\ s_proc[p].kind = "reason" /\ s_proc[p].pc = "results_read"
        /\ CanRead(s_rlock)
        /\ LET id == s_proc[p].id
           IN  Step(p, Reply(s_proc[p], get_fail_reason_result(s_results, id)))
        /\ UNCHANGED <<s_sessions, s_tasks, s_files, s_results, s_flock, s_rlock,
                       s_started, s_owner, s_acked>>
        /\ UNCHANGED <<cvars, bvars, gvars, nvars>>

\* download: results.read().await and the answer
DownloadRead(p) ==
        /\ s_proc[p].kind = "download" /\ s_proc[p].pc = "results_read"
        /\ CanRead(s_rlock)
        /\ LET id == s_proc[p].id
           IN  Step(p, Reply(s_proc[p], download_result(s_results, id)))
        /\ UNCHANGED <<s_sessions, s_tasks, s_files, s_results, s_flock, s_rlock,
                       s_started, s_owner, s_acked>>
        /\ UNCHANGED <<cvars, bvars, gvars, nvars>>

NextServer ==
    \E p \in Procs :
        \/ DevLogin(p)
        \/ UploadExtract(p)
        \/ UploadInsert(p)
        \/ SubmitCheckSession(p)
        \/ SubmitReadFiles(p)
        \/ SubmitLockResults(p)
        \/ SubmitReadLen(p)
        \/ SubmitPush(p)
        \/ SubmitGetTasks(p)
        \/ SubmitInsertTasks(p)
        \/ GetCompileList(p)
        \/ ReasonCheck(p)
        \/ DownloadCheck(p)
        \/ ReasonRead(p)
        \/ DownloadRead(p)

InitServer == CIdle /\ BIdle /\ GIdle /\ NIdle /\ SNew

SpecServer == InitServer /\ [][NextServer]_vars

\* the next step of the handler that runs on connection task p
Continue(p) ==
    \/ UploadInsert(p)
    \/ SubmitReadFiles(p)
    \/ SubmitLockResults(p)
    \/ SubmitReadLen(p)
    \/ SubmitPush(p)
    \/ SubmitGetTasks(p)
    \/ SubmitInsertTasks(p)
    \/ ReasonRead(p)
    \/ DownloadRead(p)

\* The runtime polls every task that can go on, and tokio's RwLock hands the
\* lock out in the order of the requests for it, so a handler that can take
\* its step again and again does take it.
\* The locks do not depend on who is logged in: SpecServerLive follows the
\* server with MaxLiveSessions logins.
NextServerLive ==
    \E p \in Procs :
        \/ Cardinality(s_sessions) < MaxLiveSessions /\ DevLogin(p)
        \/ UploadExtract(p)
        \/ SubmitCheckSession(p)
        \/ GetCompileList(p)
        \/ ReasonCheck(p)
        \/ DownloadCheck(p)
        \/ Continue(p)

SpecServerLive ==
    InitServer /\ [][NextServerLive]_vars /\ \A p \in Procs : SF_vars(Continue(p))

(***************************************************************************)
(* Properties of the bundle assembler, checked under SpecBundle.           *)
(***************************************************************************)
Assembled == b_pc \in {"open", "packed", "extracted"}

Packed == b_pc \in {"packed", "extracted"}

\* the inserts of a name in the history, as their positions
InsertsOf(name) == {i \in 1..Len(b_hist) : b_hist[i].name = name}

FirstInsert(name) == Nth(InsertsOf(name), 1)

LastInsert(name) == Nth(InsertsOf(name), Cardinality(InsertsOf(name)))

\* what extraction has to return for a bundle: its slots, each name as text
Mapping(m) == [k \in 1..Len(m) |-> Slot(NameChars(m[k].name), m[k].payload)]

\* C1: after any sequence of inserts (with_adaptor's, then set_database
\* calls) every inserted name holds exactly one slot, the slots stand in the
\* order in which the names were first inserted, each slot holds the payload
\* of the name's last insert, and pack emits its statements in slot order.
C1_FirstSeenOrderLastPayload ==
    Assembled =>
        /\ {entries[k].name : k \in 1..Len(entries)}
             = {b_hist[i].name : i \in 1..Len(b_hist)}
        /\ \A k, l \in 1..Len(entries) :
              k < l => FirstInsert(entries[k].name) < FirstInsert(entries[l].name)
        /\ \A k \in 1..Len(entries) :
              entries[k].payload = b_hist[LastInsert(entries[k].name)].payload
        /\ Packed =>
              LET calls == LuaCalls(b_script)
              IN  /\ Len(calls) = Len(entries)
                  /\ \A k \in 1..Len(entries) :
                        GbkDecode(HexDecode(calls[k].name).bytes)
                          = NameChars(entries[k].name)

\* C1 witness: a packed bundle in which a name was inserted, then another
\* name, then the first name again with another payload ([A, B, A]).
C1_Witness ==
    /\ b_pc = "packed"
    /\ \E i, j, k \in 1..Len(b_hist) :
          /\ i < j /\ j < k
          /\ b_hist[i].name = b_hist[k].name
          /\ b_hist[j].name # b_hist[i].name
          /\ b_hist[i].payload # b_hist[k].payload
          /\ entries[Len(entries)].name = b_hist[j].name

\* C2: the loader script pack renders holds exactly one __U_Lib statement
\* per entry, in bundle order, every one a line of its own closed by a
\* newline, with the upper-case hex of the GBK name as first argument and
\* the upper-case hex of the entry-ciphered compressed payload as second;
\* an entry with an empty payload has its statement like any other.
C2_OneStatementPerEntry ==
    Packed =>
        LET lines == Lines(b_script)
        IN  /\ Len(lines) = Len(entries)
            /\ Cardinality(Positions(b_script, 10)) = Len(entries)
            /\ Len(entries) > 0 => b_script[Len(b_script)] = 10
            /\ \A k \in 1..Len(entries) :
                  LET call == ParseCall(lines[k])
                  IN  /\ call.ok
                      /\ call.name = HexEncodeUpper(GbkEncode(NameChars(entries[k].name)))
                      /\ HexDecode(call.data).ok
                      /\ \A i \in 1..Len(call.data) : call.data[i] \notin 97..102
                      /\ decrypt_ulib(HexDecode(call.data).bytes)
                           = compress(entries[k].payload, <<>>).buf

\* C2 witness: a packed bundle of three entries or more, one of them with a
\* payload of length zero.
C2_Witness ==
    /\ b_pc = "packed"
    /\ Len(entries) >= 3
    /\ \E k \in 1..Len(entries) : entries[k].payload = <<>>
    /\ \E k \in 1..Len(entries) : entries[k].payload # <<>>

\* C3: extraction inverts packing.  The artifact pack returned, put through
\* the container cipher and executed statement by statement with each name
\* hex- and GBK-decoded and each payload hex-decoded, entry-deciphered and
\* decompressed, gives back the bundle's names and payloads in order; so
\* does extract_bundle on the artifact's file.  adaptor.lua is among them,
\* and database.lua once set_database was called.
C3_ExtractInvertsPack ==
    /\ Packed =>
          /\ ExtractEntries(b_artifact).ok
          /\ ExtractEntries(b_artifact).map = Mapping(entries)
    /\ b_pc = "extracted" =>
          /\ b_out = Mapping(entries)
          /\ \E k \in 1..Len(b_out) : b_out[k].name = NameChars("adaptor.lua")
          /\ InsertsOf("database.lua") # {} =>
                \E k \in 1..Len(b_out) : b_out[k].name = NameChars("database.lua")

\* C3 witness: an extraction that returned adaptor.lua and database.lua with
\* payloads that are not empty, and a name outside ASCII.
C3_Witness ==
    /\ b_pc = "extracted"
    /\ \E k \in 1..Len(b_out) :
          b_out[k].name = NameChars("adaptor.lua") /\ b_out[k].payload # <<>>
    /\ \E k \in 1..Len(b_out) :
          b_out[k].name = NameChars("database.lua") /\ b_out[k].payload # <<>>
    /\ \E k \in 1..Len(b_out) : b_out[k].name = NameChars("hexin.lua")

(***************************************************************************)
(* Properties of the codec and the ciphers, checked under SpecCrypto.      *)
(***************************************************************************)
\* the bytes call k was applied to
InputOf(k) == IF k = 1 THEN c_orig ELSE c_hist[k - 1]

ResCalls == {"encrypt_res", "decrypt_res"}

UlibCalls == {"encrypt_ulib", "decrypt_ulib"}

\* C9: decompress applied to what compress wrote into a fresh buffer
\* succeeds and returns exactly the bytes compress was given.
C9_DecompressInvertsCompress ==
    \A k \in 1..Len(c_ops) :
        /\ c_ops[k] \in {"compress", "compress_append"} => c_status = "ok" \/ k < Len(c_ops)
        /\ (k > 1 /\ c_ops[k - 1] = "compress" /\ c_ops[k] = "decompress") =>
              /\ c_status = "ok" \/ k < Len(c_ops)
              /\ c_hist[k] = InputOf(k - 1)

\* C9 witness: a round trip of a byte string that is not empty.
C9_Witness ==
    /\ c_ops = <<"compress", "decompress">>
    /\ c_status = "ok"
    /\ Len(c_orig) > 0
    /\ c_data = c_orig

\* C10: in each cipher context (container: encrypt_res, decrypt_res; entry:
\* encrypt_ulib, decrypt_ulib) two calls one after the other return the
\* bytes the first was given, whatever their length.
C10_CipherTwiceIsIdentity ==
    \A k \in 2..Len(c_ops) :
        /\ (c_ops[k - 1] \in ResCalls /\ c_ops[k] \in ResCalls) =>
              c_hist[k] = InputOf(k - 1)
        /\ (c_ops[k - 1] \in UlibCalls /\ c_ops[k] \in UlibCalls) =>
              c_hist[k] = InputOf(k - 1)

\* C10 witness: bytes enciphered and deciphered in the container context,
\* the cipher having changed them in between.
C10_Witness ==
    /\ c_ops = <<"encrypt_res", "decrypt_res">>
    /\ Len(c_orig) > 0
    /\ c_hist[1] # c_orig
    /\ c_data = c_orig

\* the calls that ran decompress on at least eight bytes that do not start
\* with the magic
BadMagicCalls ==
    {k \in 1..Len(c_ops) :
        /\ c_ops[k] = "decompress"
        /\ Len(InputOf(k)) >= 8
        /\ SubSeq(InputOf(k), 1, 4) # U32ToLe(COMPRESS_MAGIC)}

\* a hexadecimal text put in front of zeros up to eight digits
PadHex(t) == [i \in 1..8 |-> IF i <= 8 - Len(t) THEN 48 ELSE t[i - (8 - Len(t))]]

\* C11: decompress on eight bytes or more that do not start with the magic
\* returns an error value whose message is the magic it found (the value of
\* the first four bytes read little-endian, in upper-case hexadecimal), and
\* leaves the buffer at the eight header bytes: the size is not applied and
\* nothing is decompressed.
C11_BadMagicReported ==
    \A k \in BadMagicCalls :
        /\ k = Len(c_ops)
        /\ c_status = "err"
        /\ c_err.errkind = "InvalidData"
        /\ Len(c_err.msg) \in 1..8
        /\ Len(c_err.msg) > 1 => c_err.msg[1] # 48
        /\ \A i \in 1..Len(c_err.msg) : c_err.msg[i] \in (48..57) \cup (65..70)
        /\ HexDecode(PadHex(c_err.msg)).bytes = Reverse(SubSeq(InputOf(k), 1, 4))
        /\ c_hist[k] = SubSeq(InputOf(k), 1, 8)

\* C11 witness: decompress refused a ten-byte input for its magic, the
\* caller's buffer having held other bytes or none.
C11_Witness ==
    /\ c_ops = <<"decompress">>
    /\ c_orig = LongSample
    /\ c_status = "err"
    /\ c_err.msg = <<51, 48, 50, 48, 49, 48, 48>>

\* the calls that ran decompress on fewer than eight bytes
ShortCalls == {k \in 1..Len(c_ops) : c_ops[k] = "decompress" /\ Len(InputOf(k)) < 8}

\* C12: decompress on fewer than eight bytes, the empty input among them,
\* returns an error value for the truncation; it neither panics nor
\* succeeds.  In the code the read of the header is unwrapped.
C12_ShortInputIsError ==
    \A k \in ShortCalls : k = Len(c_ops) /\ c_status = "err"

\* call k returned Ok (a run stops at the first call that does not)
Returned(k) == k < Len(c_ops) \/ c_status = "ok"

\* the bytes of the magic 0x033E0F0D in the order the container holds them
MAGIC_BYTES == <<13, 15, 62, 3>>

\* what compress appended for input d is the container of d
IsContainerOf(c, d) ==
    /\ Len(c) >= 8
    /\ SubSeq(c, 1, 4) = MAGIC_BYTES
    /\ SubSeq(c, 5, 8) = <<Len(d) % 256, (Len(d) \div 256) % 256, 0, 0>>
    /\ ZlibDecode(SubSeq(c, 9, Len(c))) = [out |-> d, end |-> "eof"]

\* the calls that ran decompress on a container with the magic
MagicCalls ==
    {k \in 1..Len(c_ops) :
        /\ c_ops[k] = "decompress"
        /\ Len(InputOf(k)) >= 8
        /\ SubSeq(InputOf(k), 1, 4) = MAGIC_BYTES
        /\ InputOf(k)[7] = 0 /\ InputOf(k)[8] = 0}

\* the size a container declares
Declared(c) == c[5] + 256 * c[6]

\* C16: compress appends the four bytes of the magic, the length of its
\* input as four little-endian bytes and the compressed bytes.  decompress,
\* whatever its buffer held, returns Ok only with the buffer holding exactly
\* the declared number of bytes (the first of the stream), and returns an
\* error when the stream yields fewer bytes than declared.
C16_ContainerLayout ==
    \A k \in 1..Len(c_ops) :
        /\ c_ops[k] = "compress" => IsContainerOf(c_hist[k], InputOf(k))
        /\ c_ops[k] = "compress_append" =>
              /\ SubSeq(c_hist[k], 1, Len(UsedBuffer)) = UsedBuffer
              /\ IsContainerOf(SubSeq(c_hist[k], Len(UsedBuffer) + 1, Len(c_hist[k])),
                               InputOf(k))
        /\ k \in MagicCalls =>
              LET c == InputOf(k)
                  yield == ZlibDecode(SubSeq(c, 9, Len(c))).out
              IN  /\ Returned(k) =>
                        /\ Len(c_hist[k]) = Declared(c)
                        /\ c_hist[k] = SubSeq(yield, 1, Declared(c))
                  /\ Len(yield) < Declared(c) =>
                        k = Len(c_ops) /\ c_status = "err"

\* C16 witness: decompress refused a container that declares three bytes
\* over a stream of two.
C16_Witness ==
    /\ c_ops = <<"decompress">>
    /\ c_orig = Container(<<13, 255>>, 3)
    /\ c_status = "err"
    /\ c_err.errkind = "UnexpectedEof"

(***************************************************************************)
(* Properties of a compile request, checked under Spec.                    *)
(***************************************************************************)
Done == pc = "done"

Entered(stage) == \E i \in 1..Len(trace) : trace[i] = stage

FeatureFlags(opt) == <<opt.op_safedata, opt.op_jiasu, opt.op_qudong>>

ExactlyOneFlag(opt) == Cardinality({i \in 1..3 : FeatureFlags(opt)[i]}) = 1

NoFlag(opt) == \A i \in 1..3 : ~FeatureFlags(opt)[i]

Unsupported(opt) == opt.op_login # "Offline" \/ NoFlag(opt)

\* C4: a server request for an Offline game with exactly one of op_safedata,
\* op_jiasu and op_qudong on and a database that compiles is built: compile
\* ends with an artifact, no builder assertion fails, no error is returned.
\* (op_delad is on and the keywords hold no quote: the reading kindest to
\* the code.)  In the code anti_memory_cheat and anti_speed_hack each assert
\* their switch, so a request with exactly one flag on fails an assertion.
C4_OneFlagBuilds ==
    ( /\ Done
      /\ Entered("check")
      /\ option.op_login = "Offline"
      /\ option.op_delad
      /\ ExactlyOneFlag(option)
      /\ LuaSyntaxOk(file)
      /\ 34 \notin {option.op_keywords[i] : i \in 1..Len(option.op_keywords)} )
    => outcome.kind = "ok"

\* C5: a build that was entered ends with an artifact or with an error
\* value, never with a panic, whichever stage fails.  In the code build
\* expects the database and lua::compile unwraps the loaded function.
C5_ArtifactOrError ==
    (Done /\ Entered("compile_database")) => outcome.kind \in {"ok", "err"}

\* C6: when the database script does not compile, build returns an error
\* value (carrying the compiler's diagnostic), not a panic.  In the code
\* lua::compile unwraps the result of into_function.
C6_DatabaseCompileErrorReturned ==
    ( /\ Done
      /\ Entered("compile_database")
      /\ res.database.some
      /\ ~LuaSyntaxOk(res.database.val) )
    => outcome.kind = "err" /\ outcome.msg # ""

\* C7: a request with an unsupported option combination (a game type other
\* than Offline, or none of op_jiasu, op_qudong and op_safedata on) is
\* rejected with an error value by the option check, before any builder
\* call and before any compilation.
C7_UnsupportedRejectedFirst ==
    Unsupported(option) =>
        /\ trace \in {<<>>, <<"check">>}
        /\ res = GameRes_new
        /\ bytecode = <<>> /\ adaptor = <<>> /\ bundles = <<>>
        /\ pc \in {"compile", "done"}
        /\ Done =>
              /\ outcome.kind = "err"
              /\ outcome.msg =
                    IF option.op_login # "Offline" THEN "unsupported game type"
                    ELSE IF ~option.op_delad THEN "unknown option delad"
                    ELSE "unsupported option"

\* C7 witness: an Offline request with op_delad on and the three feature
\* flags off, rejected as an unsupported option.
C7_Witness ==
    /\ Done
    /\ option.op_login = "Offline"
    /\ option.op_delad
    /\ NoFlag(option)
    /\ outcome = Failed("unsupported option")

\* C8: build checks the database length against a header-size floor before
\* it compiles: a payload shorter than the floor (the empty payload is
\* shorter than any floor of a byte or more) fails with a too-small error.
\* (The keywords hold no quote, so that nothing else stops the build.)  In
\* the code build hands the database to the compiler whole and unchecked.
C8_TooSmallRejected ==
    ( /\ Done
      /\ Entered("compile_database")
      /\ res.database.some
      /\ Len(res.database.val) = 0
      /\ 34 \notin {option.op_keywords[i] : i \in 1..Len(option.op_keywords)} )
    => outcome.kind = "err" /\ outcome.msg = "too small"

\* the stages of build, in the order of its code
STAGES == <<"compile_database", "compile_adaptor", "assemble", "pack">>

IsPrefix(p, q) == Len(p) <= Len(q) /\ p = SubSeq(q, 1, Len(p))

LastStage == trace[Len(trace)]

\* C14: a build is one pass.  The stages entered are a prefix of compile
\* database, compile adaptor, assemble, pack (after the option check and the
\* builder), so each runs at most once and in that order; a stage is
\* entered only with the products of the stages before it, and nothing runs
\* after a failure; the bundle is the adaptor, then the libraries, then the
\* database; the artifact is the compiled loader script under the container
\* cipher applied once, each entry in it under the entry cipher applied
\* once to its compressed payload.
C14_SinglePassInOrder ==
    /\ \/ IsPrefix(trace, <<"check", "builder">> \o STAGES)
       \/ IsPrefix(trace, <<"builder">> \o STAGES)
    /\ Entered("compile_adaptor") => bytecode = LUA_SIGNATURE \o res.database.val
    /\ Entered("assemble") => adaptor = LUA_SIGNATURE \o create_adaptor(res, now)
    /\ Entered("pack") =>
          bundles = <<Slot("adaptor.lua", adaptor), Slot("bundles.lua", <<>>),
                      Slot("database.lua", bytecode)>>
    /\ outcome.kind \in {"err", "panic"} => pc = "done" /\ outcome.value = <<>>
    /\ outcome.kind = "ok" =>
          /\ pc = "done" /\ LastStage = "pack"
          /\ LET chunk == decrypt_res(outcome.value)
                 calls == LuaCalls(chunk)
             IN  /\ SubSeq(chunk, 1, 4) = LUA_SIGNATURE
                 /\ SubSeq(outcome.value, 1, 4) # LUA_SIGNATURE
                 /\ Len(calls) = Len(bundles)
                 /\ \A k \in 1..Len(bundles) :
                       /\ GbkDecode(HexDecode(calls[k].name).bytes)
                            = NameChars(bundles[k].name)
                       /\ decrypt_ulib(HexDecode(calls[k].data).bytes)
                            = compress(bundles[k].payload, <<>>).buf

\* C14 witness: a server request built through every stage.
C14_Witness ==
    /\ Done
    /\ outcome.kind = "ok"
    /\ trace = <<"check", "builder">> \o STAGES
    /\ Len(file) > 0

\* the artifact build returns from the GameRes and the compiled database of
\* this state when create_adaptor reads the wall clock as t
ArtifactAt(t) ==
    pack(set_database(with_adaptor(lua_compile(create_adaptor(res, t)).value, LIB_CATALOG),
                      bytecode)).value

\* C15: build is deterministic.  The artifact of a build is fixed by its
\* options and its database: whatever the wall clock reads while the build
\* runs, the same artifact comes out.  In the code create_adaptor writes
\* OffsetDateTime::now_utc() into the adaptor.
C15_BuildIsDeterministic ==
    (Done /\ outcome.kind = "ok") => \A t \in Times : outcome.value = ArtifactAt(t)

\* the first place at or after from where pat stands in t, 0 when nowhere
Find(t, pat, from) ==
    LET at == {i \in from..(Len(t) - Len(pat) + 1) : SubSeq(t, i, i + Len(pat) - 1) = pat}
    IN  IF at = {} THEN 0 ELSE CHOOSE i \in at : \A j \in at : i <= j

\* the text of t between the first pat and the first close after it
Between(t, pat, close) ==
    LET open == Find(t, pat, 1)
        stop == Find(t, close, open + Len(pat))
    IN  IF open = 0 \/ stop = 0 THEN <<>> ELSE SubSeq(t, open + Len(pat), stop - 1)

LUA_IF == <<105, 102, 32>>
LUA_THEN == <<32, 116, 104, 101, 110>>
LUA_F1 == <<102, 49, 40>>
LUA_F2 == <<102, 50, 40, 49, 44, 32, 34>>
LUA_TRUE == <<116, 114, 117, 101>>
LUA_FALSE == <<102, 97, 108, 115, 101>>

\* the condition that guards the call of the original statistics function
StatsGuard(script) == Between(script, LUA_IF, LUA_THEN)

\* the string the anti-cheat hook hands to the original as keywords: the
\* literal that opens after f2(1, and runs to the next double quote
AntiCheatKeywords(script) == Between(script, LUA_F2, <<34>>)

\* what follows that literal in the call
AfterKeywords(script) ==
    LET open == Find(script, LUA_F2, 1)
        stop == Find(script, <<34>>, open + Len(LUA_F2))
    IN  SubSeq(script, stop + 1, stop + 1)

\* C17: in the adaptor that build compiled, the call of the original
\* statistics function stands under a condition that is the literal true
\* when the statistics option is on and false when it is off, and the
\* anti-cheat hook calls the original with the configured keywords as its
\* one string argument after the 1.  In the code the keywords are pasted
\* between two double quotes as they are.
C17_HooksForward ==
    Entered("assemble") =>
        LET script == LuaCode(adaptor)
        IN  /\ StatsGuard(script) = IF option.op_statistics THEN LUA_TRUE ELSE LUA_FALSE
            /\ Find(script, LUA_F1, 1) > Find(script, LUA_THEN, 1)
            /\ AntiCheatKeywords(script) = GbkEncode(option.op_keywords)
            /\ AfterKeywords(script) = <<41>>

C18_AckedTaskVisible ==
    \A e \in s_acked :
        /\ check_id_in_session(e[2], s_tasks[e[1]]) = ""
        /\ (s_reply.kind = "list" /\ s_reply.resp.status = "OK" /\ s_reply.sess = e[1])
               => e[2] \in TaskIds(s_reply.resp.tasks)

\* the answers of download and get_fail_reason that tell something of the
\* stored result: the data, the error text, or whether it is a failure
Discloses(reply) ==
    /\ reply.kind \in {"download", "reason"}
    /\ reply.resp.status \in {"OK", "PRECONDITION_FAILED", "NOT_FOUND"}

\* the task table of session x has held id
Recorded(x, id) == <<x, id>> \in s_acked

\* C19: download and get_fail_reason tell of the result of an id only to a
\* request whose cookie names a stored session whose task table has held the
\* id, and then the result is one this session submitted; without a cookie
\* or with the cookie of no stored session the answer is UNAUTHORIZED, and
\* with the cookie of a session that never recorded the id it is FORBIDDEN.
C19_DisclosedToOwnerOnly ==
    /\ Discloses(s_reply) =>
           /\ s_reply.cookie \in s_sessions
           /\ s_reply.sess = s_reply.cookie
           /\ Recorded(s_reply.sess, s_reply.id)
           /\ s_reply.id < Len(s_owner)
           /\ s_owner[s_reply.id + 1] = s_reply.sess
    /\ \A p \in Procs :
           s_proc[p].pc = "results_read" =>
               /\ s_proc[p].sess \in s_sessions
               /\ Recorded(s_proc[p].sess, s_proc[p].id)
    /\ s_reply.kind \in {"download", "reason"} =>
           /\ s_reply.cookie \in {"none", "unknown"} => s_reply.resp.status = "UNAUTHORIZED"
           /\ (s_reply.cookie \in s_sessions /\ ~Recorded(s_reply.cookie, s_reply.id))
                  => s_reply.resp.status = "FORBIDDEN"

\* a session asked for the result another session submitted and was refused
C19_Witness ==
    /\ s_reply.kind = "download"
    /\ s_reply.cookie \in s_sessions
    /\ s_reply.id < Len(s_owner)
    /\ s_owner[s_reply.id + 1] # s_reply.cookie
    /\ s_reply.resp.status = "FORBIDDEN"

\* the submissions that hold an id: their result is pushed
HoldsId(p) == s_proc[p].kind = "submit" /\ s_proc[p].pc \in {"tasks_get", "tasks_insert"}

\* the step of p that pushes its result
Pushes(p) == s_proc[p].pc = "results_push" /\ s_proc'[p].pc = "tasks_get"

\* C20: however the submissions interleave, each gets an id of its own,
\* the index at which its own result is stored in results (ids and indices
\* counted from 0), and results only grows at its end: no element is
\* overwritten or removed and the length never decreases.
C20_IdIsIndexOfOwnResult ==
    /\ [](/\ Len(s_owner) = Len(s_results)
          /\ \A p \in Procs :
                 HoldsId(p) =>
                     /\ s_proc[p].id < Len(s_results)
                     /\ s_results[s_proc[p].id + 1].ok = s_proc[p].result.ok
                     /\ s_owner[s_proc[p].id + 1] = s_proc[p].sess
                     /\ \A q \in Procs \ {p} : HoldsId(q) => s_proc[q].id # s_proc[p].id
          /\ \A e \in s_acked : e[2] < Len(s_owner) /\ s_owner[e[2] + 1] = e[1])
    /\ [][/\ Len(s_results') >= Len(s_results)
          /\ \A i \in 1..Len(s_results) : s_results'[i] = s_results[i]
          /\ \A p \in Procs :
                 Pushes(p) =>
                     /\ Len(s_results') = Len(s_results) + 1
                     /\ s_proc'[p].id = Len(s_results)
                     /\ s_results'[s_proc'[p].id + 1] = s_proc[p].result]_vars

\* two submissions that ran side by side both hold an id
C20_Witness ==
    /\ \A p \in Procs : HoldsId(p)
    /\ Len(s_results) = 2
    /\ s_results[1] # s_results[2]


\* every task of every session's table
RecordedTasks == UNION {s_tasks[x] : x \in SessionIds}

\* C21: a recorded task has status Done exactly when the result stored at
\* results[id] is a success and Failed exactly when it is an error, never
\* Processing, and its id field is the key it is stored under.
C21_StatusMatchesResult ==
    \A e \in RecordedTasks :
        /\ e.value.id = e.key
        /\ e.key < Len(s_results)
        /\ e.value.status = "Done" <=> s_results[e.key + 1].ok
        /\ e.value.status = "Failed" <=> ~s_results[e.key + 1].ok
        /\ e.value.status # "Processing"

\* one session holds a task of a success and a task of an error
C21_Witness ==
    \E x \in SessionIds :
        \E d, f \in s_tasks[x] : d.value.status = "Done" /\ f.value.status = "Failed"


QUERIES == {"download", "reason"}

\* a step of a download or get_fail_reason handler
QueryStep ==
    \/ s_reply' # s_reply /\ s_reply'.kind \in QUERIES
    \/ \E p \in Procs :
           /\ s_proc'[p] # s_proc[p]
           /\ s_proc[p].kind \in QUERIES \/ s_proc'[p].kind \in QUERIES

\* C22: for an id that passed the session check, download answers with the
\* stored bytes exactly when results[id] is a success and with
\* PRECONDITION_FAILED when it is an error; get_fail_reason answers with the
\* stored error text exactly when results[id] is an error and with
\* PRECONDITION_FAILED when it is a success; past the end of results both
\* answer NOT_FOUND; and no step of either handler changes results, the
\* files or a session.
C22_AnswersFollowResult ==
    /\ [](/\ \A id \in 0..(Len(s_results) - 1) :
                 LET r == s_results[id + 1]
                     d == download_result(s_results, id)
                     f == get_fail_reason_result(s_results, id)
                 IN  /\ d.status = "OK" <=> r.ok
                     /\ r.ok => d.data = r.data
                     /\ ~r.ok => d.status = "PRECONDITION_FAILED" /\ d.data = <<>>
                     /\ f.status = "OK" <=> ~r.ok
                     /\ ~r.ok => f.text = r.err
                     /\ r.ok => f.status = "PRECONDITION_FAILED" /\ f.text = ""
          /\ download_result(s_results, Len(s_results)).status = "NOT_FOUND"
          /\ get_fail_reason_result(s_results, Len(s_results)).status = "NOT_FOUND"
          /\ Discloses(s_reply) =>
                 s_reply.resp = IF s_reply.kind = "download"
                                THEN download_result(s_results, s_reply.id)
                                ELSE get_fail_reason_result(s_results, s_reply.id))
    /\ [][QueryStep => UNCHANGED <<s_results, s_files, s_sessions, s_tasks, s_owner,
                                   s_acked, s_flock, s_rlock>>]_vars

\* a download was answered with the stored bytes of a success
C22_Witness ==
    /\ s_reply.kind = "download"
    /\ s_reply.resp.status = "OK"
    /\ s_reply.id < Len(s_results)
    /\ s_reply.resp.data = s_results[s_reply.id + 1].data
    /\ Len(s_reply.resp.data) > 8


\* the statuses check_session fails with
SESSION_ERRORS == {"UNAUTHORIZED", "BAD_REQUEST", "INTERNAL_SERVER_ERROR"}

\* the step of a submission that looks its file up
LooksUp(p) == s_proc[p].pc = "files_read" /\ s_proc'[p] # s_proc[p]

\* the step that answers a submission with st
Refuses(st) ==
    /\ s_reply'.kind = "submit"
    /\ s_reply'.resp.status \in st
    /\ s_reply' # s_reply \/ s_proc' = s_proc

\* C23: a submission that names a file nobody uploaded is answered
\* PRECONDITION_REQUIRED, and a submission without a stored session is
\* answered with the status check_session failed with and goes no further;
\* the step that gives either answer leaves results, the files and every
\* task table as they were, so no id is used up.
C23_RefusedSubmitChangesNothing ==
    /\ [](/\ (s_reply.kind = "submit" /\ s_reply.cookie \notin s_sessions)
                 => s_reply.resp.status \in SESSION_ERRORS
          /\ \A p \in Procs :
                 s_proc[p].kind = "submit" =>
                     s_proc[p].cookie \in s_sessions /\ s_proc[p].sess = s_proc[p].cookie)
    /\ [][/\ \A p \in Procs :
                 (LooksUp(p) /\ ~\E e \in s_files : e.key = s_proc[p].fname)
                     => /\ s_proc'[p].pc = "idle"
                        /\ s_reply'.kind = "submit"
                        /\ s_reply'.resp.status = "PRECONDITION_REQUIRED"
                        /\ UNCHANGED <<s_results, s_files, s_tasks, s_owner, s_acked>>
          /\ Refuses(SESSION_ERRORS \cup {"PRECONDITION_REQUIRED"})
                 => UNCHANGED <<s_results, s_files, s_sessions, s_tasks, s_owner, s_acked,
                                s_flock, s_rlock>>]_vars

\* after a file was uploaded and compiled, a submission named another file:
\* it was refused and results still holds the one result
C23_Witness ==
    /\ s_reply.kind = "submit"
    /\ s_reply.resp.status = "PRECONDITION_REQUIRED"
    /\ s_files # {}
    /\ Len(s_results) = 1
    /\ Cardinality(s_acked) = 1


\* the locks p holds
Holds(p) ==
    {l \in {"files", "results"} :
        LET lock == IF l = "files" THEN s_flock ELSE s_rlock
        IN  p \in lock.readers \cup lock.writer}

\* C24: the handlers never block each other for good on the files and
\* results locks.  The results write lock is only ever held by a handler
\* that holds the files read lock, a handler that waits for the files lock
\* holds no lock, a handler that has returned holds none, and under
\* SpecServerLive every request that has started comes to its end.
C24_NoDeadlock ==
    /\ [](\A p \in Procs :
              /\ "results" \in Holds(p) => p \in s_flock.readers /\ s_rlock.writer = {p}
              /\ s_proc[p].pc \in {"files_read", "files_write"} => Holds(p) = {}
              /\ s_proc[p].pc = "results_write" => Holds(p) = {"files"}
              /\ Free(p) => Holds(p) = {})
    /\ \A p \in Procs : ~Free(p) ~> Free(p)

\* a submission holds the files read lock and the results write lock while
\* an upload waits for the files write lock
C24_Witness ==
    \E p, q \in Procs :
        /\ Holds(p) = {"files", "results"}
        /\ s_proc[q].pc = "files_write"
        /\ ~CanWrite(s_flock)

====
